---- MODULE Spec2Model ----
(***************************************************************************)
(* Version coordination protocol of dbmate-deployer: a publisher (push)    *)
(* uploads version directories to object storage, a driver (once run or    *)
(* daemon tick) finds the newest version without result.json, executes it  *)
(* and uploads result.json.  Strings are sequences of ASCII codes so that  *)
(* sort.Strings, TrimPrefix/TrimSuffix and the 14-digit checks are         *)
(* computed as the code computes them.                                     *)
(***************************************************************************)
EXTENDS Integers, Sequences, FiniteSets, TLC

VARIABLES
    objects,      \* storage: directory name -> [files, result]
    pc,           \* driver -> position inside once.Execute / runMigrationCheck
    versions,     \* driver -> sorted versions slice built by FindUnappliedVersion
    version,      \* driver -> version returned by FindUnappliedVersion
    result,       \* driver -> *Result returned by ExecuteMigration
    pushPc,       \* publisher: position inside push.Execute
    pushVersion,  \* publisher: c.Version of the push that is uploading
    pushQueue,    \* publisher: files UploadMigrations has still to upload
    runs,         \* number of driver runs that found a version to execute
    hist,         \* history per version: ExecuteMigration calls, runner calls,
                  \* deletions of result.json, UploadResult calls and those
                  \* that succeeded; working directories left behind
    event,        \* what the last step returned to its caller, if it returned
    loop,         \* daemon.Execute: position in the ticker loop, pending tick
    waiter,       \* wait.Execute / WaitForResult: position, attempts, clock
    slack         \* SendSlackNotification: the result given, the payload built

vars == <<objects, pc, versions, version, result, pushPc, pushVersion, pushQueue,
          runs, hist, event, loop, waiter, slack>>

\* the variables of the daemon loop, of the waiter and of the notification
procVars == <<loop, waiter, slack>>

----------------------------------------------------------------------------
(* Bounds *)

MaxRuns == 2

----------------------------------------------------------------------------
(* Strings as sequences of ASCII codes *)

Slash == <<47>>

\* "20240101000000", "20240102000000", "20240103000000"
V1 == <<50,48,50,52,48,49,48,49,48,48,48,48,48,48>>
V2 == <<50,48,50,52,48,49,48,50,48,48,48,48,48,48>>
V3 == <<50,48,50,52,48,49,48,51,48,48,48,48,48,48>>

\* "m/": the S3 path prefix, already normalised to end with "/"
Prefix == <<109,47>>

DirNames == {V1, V2, V3}

\* byte-wise comparison of Go strings (a < b)
RECURSIVE StrLess(_, _)
StrLess(a, b) ==
    IF b = <<>> THEN FALSE
    ELSE IF a = <<>> THEN TRUE
    ELSE IF Head(a) < Head(b) THEN TRUE
    ELSE IF Head(a) > Head(b) THEN FALSE
    ELSE StrLess(Tail(a), Tail(b))

HasPrefix(s, p) == Len(s) >= Len(p) /\ SubSeq(s, 1, Len(p)) = p
HasSuffix(s, p) == Len(s) >= Len(p) /\ SubSeq(s, Len(s) - Len(p) + 1, Len(s)) = p
TrimPrefix(s, p) == IF HasPrefix(s, p) THEN SubSeq(s, Len(p) + 1, Len(s)) ELSE s
TrimSuffix(s, p) == IF HasSuffix(s, p) THEN SubSeq(s, 1, Len(s) - Len(p)) ELSE s

\* the elements of a path between its slashes: `cuts` are the positions of
\* the slashes and of the two ends
SplitPath(s) ==
    LET cuts == {0, Len(s) + 1} \cup {i \in 1..Len(s) : s[i] = 47}
        cut(k) == CHOOSE x \in cuts : Cardinality({y \in cuts : y < x}) = k - 1
    IN  [k \in 1..(Cardinality(cuts) - 1) |-> SubSeq(s, cut(k) + 1, cut(k + 1) - 1)]

Dot == <<46>>
DotDot == <<46,46>>

\* path.Clean from element i on: `out` holds the elements kept
RECURSIVE CleanElems(_, _, _, _)
CleanElems(elems, i, out, rooted) ==
    IF i > Len(elems) THEN out
    ELSE IF elems[i] = <<>> \/ elems[i] = Dot THEN CleanElems(elems, i + 1, out, rooted)
    ELSE IF elems[i] = DotDot
    THEN IF out # <<>> /\ out[Len(out)] # DotDot
         THEN CleanElems(elems, i + 1, SubSeq(out, 1, Len(out) - 1), rooted)
         ELSE IF rooted THEN CleanElems(elems, i + 1, out, rooted)
         ELSE CleanElems(elems, i + 1, Append(out, elems[i]), rooted)
    ELSE CleanElems(elems, i + 1, Append(out, elems[i]), rooted)

\* strings.Join(elems, "/")
RECURSIVE JoinSlash(_)
JoinSlash(elems) ==
    IF elems = <<>> THEN <<>>
    ELSE IF Len(elems) = 1 THEN elems[1]
    ELSE elems[1] \o Slash \o JoinSlash(Tail(elems))

\* path.Clean: the shortest path equivalent to p
Clean(p) ==
    LET rooted == p # <<>> /\ p[1] = 47
        out == JoinSlash(CleanElems(SplitPath(p), 1, <<>>, rooted))
    IN  IF rooted THEN Slash \o out
        ELSE IF out = <<>> THEN Dot ELSE out

\* path.Join: the non-empty elements joined by slashes, then cleaned
PathJoin(elems) ==
    LET kept == SelectSeq(elems, LAMBDA e : e # <<>>)
    IN  IF kept = <<>> THEN <<>> ELSE Clean(JoinSlash(kept))

\* "result.json"
Str_resultJson == <<114,101,115,117,108,116,46,106,115,111,110>>

\* sort.Strings: insertion of each element into an ascending sequence
RECURSIVE InsertSorted(_, _)
InsertSorted(x, s) ==
    IF s = <<>> THEN <<x>>
    ELSE IF StrLess(x, Head(s)) THEN <<x>> \o s
    ELSE <<Head(s)>> \o InsertSorted(x, Tail(s))

\* a FindUnappliedVersion that leaves the slice in the order of the response
SortStrings_unsorted(s) == s

RECURSIVE SortStrings(_)
SortStrings(s) ==
    IF s = <<>> THEN <<>> ELSE InsertSorted(Head(s), SortStrings(Tail(s)))

\* all orders in which a set of strings can be enumerated
Perms(S) ==
    {p \in [1..Cardinality(S) -> S] : \A i, j \in 1..Cardinality(S) : i # j => p[i] # p[j]}


Range(s) == {s[i] : i \in 1..Len(s)}

----------------------------------------------------------------------------
(* Object storage.  objects[d] is the content of the keys under            *)
(* <prefix><d>/ : files is the set of [name, content] of the keys          *)
(* <prefix><d>/migrations/<name>, result the content of                    *)
(* <prefix><d>/result.json (NoResult when the key is absent).              *)

NoResult == [Version |-> <<>>, Status |-> "absent", MigrationsApplied |-> 0,
             Error |-> "", Log |-> <<>>]
NoFiles == {}

EmptyDir == [files |-> NoFiles, result |-> NoResult]

\* a directory shows in a delimiter listing when a key exists under it
DirExists(store, d) == store[d].files # NoFiles \/ store[d].result # NoResult

\* CommonPrefixes of ListObjectsV2(Prefix, Delimiter "/"): <prefix><d>/
CommonPrefix(d) == Prefix \o d \o Slash

\* responses of the list call: an error, or the common prefixes in some order
ListObjectsV2(store) ==
    LET cps == {CommonPrefix(d) : d \in {x \in DOMAIN store : DirExists(store, x)}}
    IN  {[err |-> TRUE, CommonPrefixes |-> <<>>]}
        \cup {[err |-> FALSE, CommonPrefixes |-> p] : p \in Perms(cps)}

\* responses of HeadObject for <prefix><d>/result.json: the error strings the
\* SDK can produce, or "" for success
HeadObject(store, d) ==
    IF d \in DOMAIN store /\ store[d].result # NoResult
    THEN {"", "AccessDenied"}
    ELSE {"NotFound", "NoSuchKey", "AccessDenied"}

----------------------------------------------------------------------------
(* shared: FindUnappliedVersion and CheckResultExists *)

NoError == "nil"
ErrList == "failed to list S3 objects"
ErrNoVersions == "no versions found"
ErrCheck == "failed to check result.json for newest version"
ErrNoUnapplied == "no unapplied versions found"

\* the loop over resp.CommonPrefixes: trim the prefix and the trailing "/",
\* keep the non-empty names, in the order of the response
RECURSIVE ExtractVersions(_)
ExtractVersions(cps) ==
    IF cps = <<>> THEN <<>>
    ELSE LET versionPath == TrimSuffix(TrimPrefix(Head(cps), Prefix), Slash)
         IN  (IF versionPath # <<>> THEN <<versionPath>> ELSE <<>>)
             \o ExtractVersions(Tail(cps))

\* sort.Strings(versions)
SortedVersions(cps) == SortStrings(ExtractVersions(cps))

\* a FindUnappliedVersion that takes the first element of the sorted slice
NewestVersion_first(vs) == vs[1]

\* newestVersion := versions[len(versions)-1]
NewestVersion(vs) == vs[Len(vs)]

\* a CheckResultExists that takes a NoSuchKey answer for "exists"
CheckResultExists_noSuchKeyExists(headErr) ==
    IF headErr # ""
    THEN IF headErr = "NotFound"
         THEN [exists |-> FALSE, err |-> NoError]
         ELSE IF headErr = "NoSuchKey"
              THEN [exists |-> TRUE, err |-> NoError]
              ELSE [exists |-> FALSE, err |-> headErr]
    ELSE [exists |-> TRUE, err |-> NoError]

\* a CheckResultExists that takes every error of HeadObject for "absent"
CheckResultExists_anyErrorAbsent(headErr) ==
    IF headErr # ""
    THEN [exists |-> FALSE, err |-> NoError]
    ELSE [exists |-> TRUE, err |-> NoError]

\* a CheckResultExists that takes a successful HeadObject for "absent" too
CheckResultExists_neverExists(headErr) ==
    IF headErr # "" /\ headErr \notin {"NotFound", "NoSuchKey"}
    THEN [exists |-> FALSE, err |-> headErr]
    ELSE [exists |-> FALSE, err |-> NoError]

\* CheckResultExists on the error string of HeadObject ("" = no error):
\* NotFound / NoSuchKey mean absent, any other error is returned
CheckResultExists(headErr) ==
    IF headErr # ""
    THEN IF headErr \in {"NotFound", "NoSuchKey"}
         THEN [exists |-> FALSE, err |-> NoError]
         ELSE [exists |-> FALSE, err |-> headErr]
    ELSE [exists |-> TRUE, err |-> NoError]

\* a FindUnappliedVersion that reports an empty listing as "all applied"
FindListError_conflated(resp) ==
    IF resp.err THEN ErrList
    ELSE IF Len(ExtractVersions(resp.CommonPrefixes)) = 0 THEN ErrNoUnapplied
    ELSE NoError

\* FindUnappliedVersion up to the length check: the error it returns there,
\* or NoError when it goes on to the existence check
FindListError(resp) ==
    IF resp.err THEN ErrList
    ELSE IF Len(ExtractVersions(resp.CommonPrefixes)) = 0 THEN ErrNoVersions
    ELSE NoError

\* a FindUnappliedVersion that falls back to the next older version when the
\* newest one has result.json
FindCheck_fallback(vs, headErr) ==
    LET chk == CheckResultExists(headErr)
    IN  IF chk.err # NoError THEN [version |-> <<>>, err |-> ErrCheck]
        ELSE IF ~chk.exists THEN [version |-> vs[Len(vs)], err |-> NoError]
        ELSE IF Len(vs) > 1 THEN [version |-> vs[Len(vs) - 1], err |-> NoError]
        ELSE [version |-> <<>>, err |-> ErrNoUnapplied]

\* a FindUnappliedVersion that returns the newest version whether or not it
\* has result.json
FindCheck_ignoresExisting(vs, headErr) ==
    LET chk == CheckResultExists(headErr)
    IN  IF chk.err # NoError THEN [version |-> <<>>, err |-> ErrCheck]
        ELSE [version |-> vs[Len(vs)], err |-> NoError]

\* FindUnappliedVersion from the existence check on: (version, error)
FindCheck(vs, headErr) ==
    LET newestVersion == NewestVersion(vs)
        chk == CheckResultExists(headErr)
    IN  IF chk.err # NoError THEN [version |-> <<>>, err |-> ErrCheck]
        ELSE IF ~chk.exists THEN [version |-> newestVersion, err |-> NoError]
        ELSE [version |-> <<>>, err |-> ErrNoUnapplied]

----------------------------------------------------------------------------
(* shared: ExecuteMigration *)

\* the steps of one attempt whose outcome the environment decides, in the
\* order the code makes them: os.MkdirTemp, DownloadMigrations, os.ReadDir,
\* url.Parse(databaseURL), db.CreateAndMigrate
Steps == <<"mkdir", "download", "readdir", "url", "runner">>

\* an environment names the first step that fails, or "none"
Envs == Range(Steps) \cup {"none"}

StepIndex(s) == CHOOSE i \in 1..Len(Steps) : Steps[i] = s

\* whether step `s` succeeds in environment `env`
StepOk(env, s) == env # s

LogStart == <<"=== Starting database migration ===", "Version: %s">>
LogDownloading == <<"Downloading migrations from s3://%s/%s">>

\* whether the attempt reaches db.CreateAndMigrate
ReachesRunner(env) == env \in {"runner", "none"}

\* an ExecuteMigration that removes its working directory at its end only
TempDirsLeft_removedAtEnd(env) ==
    IF StepOk(env, "mkdir") /\ env # "none" THEN 1 ELSE 0

\* the working directories of one ExecuteMigration that exist once it has
\* returned: os.MkdirTemp makes one, and from then on os.RemoveAll is deferred
TempDirsLeft(env) ==
    LET created == IF StepOk(env, "mkdir") THEN 1 ELSE 0
        deferred == StepOk(env, "mkdir")
    IN  created - (IF deferred THEN 1 ELSE 0)

\* an ExecuteMigration that forgets result.Status when url.Parse fails
ExecuteMigration_noStatus(v, files, env) ==
    IF env = "url"
    THEN [Version |-> v, Status |-> "", MigrationsApplied |-> 0,
          Error |-> "Invalid DATABASE_URL: %v", Log |-> LogStart \o LogDownloading]
    ELSE [Version |-> v, Status |-> IF env = "none" THEN "success" ELSE "failed",
          MigrationsApplied |-> IF env = "none" THEN Cardinality(files) ELSE 0,
          Error |-> IF env = "none" THEN "" ELSE "failed",
          Log |-> LogStart]

\* an ExecuteMigration that sets MigrationsApplied before it runs dbmate
ExecuteMigration_countsEarly(v, files, env) ==
    [Version |-> v, Status |-> IF env = "none" THEN "success" ELSE "failed",
     MigrationsApplied |-> IF ReachesRunner(env) THEN Cardinality({f.name : f \in files})
                           ELSE 0,
     Error |-> IF env = "none" THEN "" ELSE "dbmate failed: %v",
     Log |-> LogStart]

\* the *Result of ExecuteMigration for `v`, whose migrations/ keys are `files`
ExecuteMigration(v, files, env) ==
    LET base == [Version |-> v, Status |-> "", MigrationsApplied |-> 0,
                 Error |-> "", Log |-> <<>>]
        migrationCount == Cardinality({f.name : f \in files})
    IN  IF ~StepOk(env, "mkdir")
        THEN [base EXCEPT !.Status = "failed",
                          !.Error = "Failed to create temp directory: %v",
                          !.Log = LogStart]
        ELSE IF ~StepOk(env, "download")
        THEN [base EXCEPT !.Status = "failed",
                          !.Error = "Failed to download migrations: %v",
                          !.Log = LogStart \o LogDownloading
                                  \o <<"x Failed to download migrations: %v">>]
        ELSE IF ~StepOk(env, "readdir")
        THEN [base EXCEPT !.Status = "failed",
                          !.Error = "Failed to read migrations directory: %v",
                          !.Log = LogStart \o LogDownloading
                                  \o <<"x Failed to read migrations directory: %v">>]
        ELSE IF ~StepOk(env, "url")
        THEN [base EXCEPT !.Status = "failed",
                          !.Error = "Invalid DATABASE_URL: %v",
                          !.Log = LogStart \o LogDownloading
                                  \o <<"Downloaded %d migration files", "Running dbmate up...",
                                       "x Failed to parse DATABASE_URL: %v">>]
        ELSE IF ~StepOk(env, "runner")
        THEN [base EXCEPT !.Status = "failed",
                          !.Error = "dbmate failed: %v",
                          !.Log = LogStart \o LogDownloading
                                  \o <<"Downloaded %d migration files", "Running dbmate up...",
                                       "x Migration failed: %v">>]
        ELSE [base EXCEPT !.Status = "success",
                          !.MigrationsApplied = migrationCount,
                          !.Log = LogStart \o LogDownloading
                                  \o <<"Downloaded %d migration files", "Running dbmate up...",
                                       "v Migration completed successfully">>]

----------------------------------------------------------------------------
(* once.Execute and daemon.runMigrationCheck: what a run returns and logs *)

\* the once command (every run a new process) and the daemon (every run a
\* tick of its ticker loop); the mode of a run is the driver that makes it
Drivers == {"once", "daemon"}

\* a once.Execute that returns every error of FindUnappliedVersion
FindErrorReturn_strict(m, err) ==
    IF m = "once"
    THEN [value |-> "error", msg |-> "failed to find unapplied version"]
    ELSE [value |-> "void", msg |-> "Failed to find unapplied version"]

\* after FindUnappliedVersion returned the error `err`
FindErrorReturn(m, err) ==
    IF m = "once"
    THEN IF err = ErrNoUnapplied
         THEN [value |-> "nil", msg |-> "All versions are already applied"]
         ELSE IF err = ErrNoVersions
         THEN [value |-> "nil", msg |-> "No migration versions found in S3"]
         ELSE [value |-> "error", msg |-> "failed to find unapplied version"]
    ELSE IF err = ErrNoUnapplied
         THEN [value |-> "void", msg |-> "All versions are already applied"]
         ELSE [value |-> "void", msg |-> "Failed to find unapplied version"]

\* a once.Execute that only logs the error of UploadResult
UploadReturn_putErrorLogged(m, res, putOk) ==
    IF res.Status # "success"
    THEN [value |-> IF m = "once" THEN "error" ELSE "void",
          msg |-> IF m = "once" THEN "migration failed" ELSE "Migration failed"]
    ELSE [value |-> IF m = "once" THEN "nil" ELSE "void",
          msg |-> IF putOk THEN "Migration completed successfully"
                  ELSE "Failed to upload result"]

\* a once.Execute that returns nil whenever the result was uploaded
UploadReturn_ignoresStatus(m, res, putOk) ==
    IF ~putOk
    THEN [value |-> IF m = "once" THEN "error" ELSE "void", msg |-> "Failed to upload result"]
    ELSE [value |-> IF m = "once" THEN "nil" ELSE "void",
          msg |-> "Migration completed successfully"]

\* after UploadResult returned (putOk = the PutObject call succeeded)
UploadReturn(m, res, putOk) ==
    IF ~putOk
    THEN [value |-> IF m = "once" THEN "error" ELSE "void",
          msg |-> "Failed to upload result"]
    ELSE IF res.Status # "success"
    THEN [value |-> IF m = "once" THEN "error" ELSE "void",
          msg |-> IF m = "once" THEN "migration failed" ELSE "Migration failed"]
    ELSE [value |-> IF m = "once" THEN "nil" ELSE "void",
          msg |-> "Migration completed successfully"]

\* an UploadResult that stores the record of a successful migration only
UploadResult_onlySuccess(store, v, res, putOk) ==
    IF putOk /\ res.Status = "success" THEN [store EXCEPT ![v].result = res] ELSE store

\* an UploadResult that creates result.json only when the key is absent
UploadResult_ifAbsent(store, v, res, putOk) ==
    IF putOk /\ store[v].result = NoResult THEN [store EXCEPT ![v].result = res] ELSE store

\* the keys of json.MarshalIndent(result): migrations_applied and error are
\* omitempty
ResultJsonKeys(res) ==
    {"version", "status", "timestamp", "log"}
    \cup (IF res.MigrationsApplied # 0 THEN {"migrations_applied"} ELSE {})
    \cup (IF res.Error # "" THEN {"error"} ELSE {})

\* an UploadResult that clears the migrations of the version it records
UploadResult_clearsFiles(store, v, res, putOk) ==
    IF putOk THEN [store EXCEPT ![v] = [files |-> NoFiles, result |-> res]] ELSE store

\* an UploadResult whose key leaves out the version
ResultKey_noVersion(prefix, v) == PathJoin(<<prefix, Str_resultJson>>)

\* key := path.Join(prefix, version, "result.json")
ResultKey(prefix, v) == PathJoin(<<prefix, v, Str_resultJson>>)

\* PutObject of a result under `key`: the version directory whose
\* result.json has that key takes the content
PutResult(store, key, body) ==
    [d \in DOMAIN store |->
       IF key = Prefix \o d \o Slash \o Str_resultJson
       THEN [store[d] EXCEPT !.result = body] ELSE store[d]]

\* the key of UploadResult for each version, under the prefix of the model
ResultKeys == [v \in DirNames |-> ResultKey(Prefix, v)]

\* UploadResult: PutObject of the marshalled result under its key
UploadResult(store, v, res, putOk) ==
    IF putOk THEN PutResult(store, ResultKeys[v], res) ELSE store

----------------------------------------------------------------------------
(* push: version check, ValidateMigrationFile, UploadMigrations *)

Str_sql == <<46,115,113,108>>
\* "20240101000000_a.sql", "20240102000000_b.sql"
FileA == V1 \o <<95,97>> \o Str_sql
FileB == V2 \o <<95,98>> \o Str_sql
\* "20240101000000migration.sql" (no underscore after the timestamp)
FileBad == V1 \o <<109,105,103,114,97,116,105,111,110>> \o Str_sql
\* "README.md"
FileReadme == <<82,69,65,68,77,69,46,109,100>>

\* "-- migrate:up" and "-- migrate:down"
MarkerUp == <<45,45,32,109,105,103,114,97,116,101,58,117,112>>
MarkerDown == <<45,45,32,109,105,103,114,97,116,101,58,100,111,119,110>>
\* file contents: both markers on lines of their own, the up marker only
UpDown == MarkerUp \o <<10>> \o MarkerDown \o <<10>>
UpOnly == MarkerUp \o <<10>>

\* local migration directories given to push
DirA == {[name |-> FileA, content |-> UpDown]}
DirB == {[name |-> FileA, content |-> UpDown], [name |-> FileB, content |-> UpOnly]}
DirBad == {[name |-> FileA, content |-> UpDown], [name |-> FileBad, content |-> UpDown]}
DirDocs == {[name |-> FileReadme, content |-> <<>>]}
LocalDirs == {DirA, DirB, DirBad, DirDocs}

\* the --migrations-dir and --validate arguments of the pushes made: the
\* publisher leaves validation on for the directory it would reject
PushInputs ==
    {in \in [dir : LocalDirs, validate : BOOLEAN] : in.dir = DirBad => in.validate}

\* "2024" and "2024010100000a"
VShort == <<50,48,50,52>>
VAlpha == <<50,48,50,52,48,49,48,49,48,48,48,48,48,97>>
PushVersions == {V1, V2, VShort, VAlpha}

IsDigit(c) == c >= 48 /\ c <= 57

\* push.Execute: len(c.Version) == 14 and every character a digit
ValidVersion(v) == Len(v) = 14 /\ \A i \in 1..Len(v) : IsDigit(v[i])

\* strings.Contains
Contains(s, substr) ==
    \E i \in 0..(Len(s) - Len(substr)) : SubSeq(s, i + 1, i + Len(substr)) = substr

ErrExtension == "file must have .sql extension"
ErrTooShort == "filename too short"
ErrTimestamp == "filename must start with 14-digit timestamp"
ErrUnderscore == "filename must have underscore after timestamp"
ErrReadFile == "failed to read file"
ErrMarkerUp == "migration file must contain '-- migrate:up' marker"

\* a ValidateMigrationFile that looks for the underscore before the digits
ValidateMigrationFileError_underscoreFirst(f, readOk) ==
    IF ~HasSuffix(f.name, Str_sql) THEN ErrExtension
    ELSE IF Len(f.name) < 15 THEN ErrTooShort
    ELSE IF f.name[15] # 95 THEN ErrUnderscore
    ELSE IF \E i \in 1..14 : ~IsDigit(f.name[i]) THEN ErrTimestamp
    ELSE IF ~readOk THEN ErrReadFile
    ELSE IF ~Contains(f.content, MarkerUp) THEN ErrMarkerUp
    ELSE NoError

\* the error ValidateMigrationFile returns for the file `f`, NoError for nil;
\* len(fileName) counts bytes, and readOk is whether os.ReadFile succeeds
ValidateMigrationFileError(f, readOk) ==
    IF ~HasSuffix(f.name, Str_sql) THEN ErrExtension
    ELSE IF Len(f.name) < 15 THEN ErrTooShort
    ELSE IF \E i \in 1..14 : ~IsDigit(f.name[i]) THEN ErrTimestamp
    ELSE IF f.name[15] # 95 THEN ErrUnderscore
    ELSE IF ~readOk THEN ErrReadFile
    ELSE IF ~Contains(f.content, MarkerUp) THEN ErrMarkerUp
    ELSE NoError

\* a ValidateMigrationFile without the check of the underscore
ValidateMigrationFile_noUnderscore(f) ==
    /\ HasSuffix(f.name, Str_sql)
    /\ Len(f.name) >= 15
    /\ \A i \in 1..14 : IsDigit(f.name[i])
    /\ Contains(f.content, MarkerUp)

\* ValidateMigrationFile: TRUE when it returns nil
ValidateMigrationFile(f) == ValidateMigrationFileError(f, TRUE) = NoError

\* the .sql entries of the directory, in os.ReadDir order (sorted by name)
SqlFiles(dir) ==
    LET names == {f.name : f \in {g \in dir : HasSuffix(g.name, Str_sql)}}
        order == SortStrings(CHOOSE p \in Perms(names) : TRUE)
    IN  [i \in 1..Len(order) |-> CHOOSE f \in dir : f.name = order[i]]

\* a push.Execute that does not look at --dry-run
PushCheck_ignoresDryRun(v, dir, validate, dryRun, chk) ==
    IF ~ValidVersion(v) THEN "version must be 14 digits"
    ELSE IF chk.err # NoError THEN "failed to check if version exists"
    ELSE IF chk.exists THEN "version already exists"
    ELSE IF Len(SqlFiles(dir)) = 0 THEN "no .sql files found in directory"
    ELSE IF validate /\ \E f \in Range(SqlFiles(dir)) : ~ValidateMigrationFile(f)
    THEN "validation failed"
    ELSE "upload"

\* push.Execute up to the upload: the error it returns, "nil" for a dry
\* run, or "upload" when it goes on to UploadMigrations; chk is what its
\* CheckResultExists call returns
PushCheck(v, dir, validate, dryRun, chk) ==
    IF ~ValidVersion(v) THEN "version must be 14 digits"
    ELSE IF chk.err # NoError THEN "failed to check if version exists"
    ELSE IF chk.exists THEN "version already exists"
    ELSE IF Len(SqlFiles(dir)) = 0 THEN "no .sql files found in directory"
    ELSE IF validate /\ \E f \in Range(SqlFiles(dir)) : ~ValidateMigrationFile(f)
    THEN "validation failed"
    ELSE IF dryRun THEN "nil"
    ELSE "upload"

\* PutObject of <prefix><v>/migrations/<name>
PutMigration(store, v, f) ==
    [store EXCEPT ![v].files = {g \in @ : g.name # f.name} \cup {f}]

----------------------------------------------------------------------------
(* State machine *)

NoVersion == <<>>

\* no daemon process, no wait-and-notify process
NoLoop == [pc |-> "off", tick |-> FALSE, fired |-> FALSE, checks |-> 0]
NoWaiter == [pc |-> "off"]
\* SendSlackNotification is not called
NoSlack == [pc |-> "off"]

NoEvent == [who |-> "none", err |-> "", value |-> "", msg |-> "", puts |-> 0, putOk |-> 0]

\* a driver run returns `r`: `err` is the error of FindUnappliedVersion, puts
\* and putOk the PutObject calls the run made and those that succeeded
ReturnEvent(d, err, r, puts, putOk) ==
    [who |-> d, err |-> err, value |-> r.value, msg |-> r.msg, puts |-> puts, putOk |-> putOk]

\* push.Execute returns `r`
PushEvent(r) ==
    [NoEvent EXCEPT !.who = "push", !.value = r]

Init ==
    /\ objects = [d \in DirNames |-> EmptyDir]
    /\ pc = [d \in Drivers |-> "idle"]
    /\ versions = [d \in Drivers |-> <<>>]
    /\ version = [d \in Drivers |-> NoVersion]
    /\ result = [d \in Drivers |-> NoResult]
    /\ pushPc = "idle"
    /\ pushVersion = NoVersion
    /\ pushQueue = <<>>
    /\ runs = 0
    /\ hist = [executions |-> [v \in DirNames |-> 0],
               runnerCalls |-> [v \in DirNames |-> 0],
               deleted |-> [v \in DirNames |-> FALSE],
               uploads |-> [v \in DirNames |-> 0],
               uploaded |-> [v \in DirNames |-> 0],
               tempDirs |-> 0]
    /\ event = NoEvent
    /\ loop = NoLoop
    /\ waiter = NoWaiter
    /\ slack = NoSlack

\* the locals of a run that has returned
DriverLocals0(d) ==
    /\ versions' = [versions EXCEPT ![d] = <<>>]
    /\ version' = [version EXCEPT ![d] = NoVersion]
    /\ result' = [result EXCEPT ![d] = NoResult]

\* runs are made strictly one after another
Serial == \A d \in Drivers : pc[d] = "idle"

\* a once run or a daemon tick starts: FindUnappliedVersion lists the
\* version directories, builds and sorts the versions slice; the run returns
\* when the list call fails or no version is found
DriverList(d) ==
    /\ pc[d] = "idle"
    /\ runs < MaxRuns
    /\ \E resp \in ListObjectsV2(objects) :
         LET e == FindListError(resp)
         IN  IF e = NoError
             THEN /\ pc' = [pc EXCEPT ![d] = "listed"]
                  /\ versions' = [versions EXCEPT ![d] = SortedVersions(resp.CommonPrefixes)]
                  /\ event' = NoEvent
             ELSE /\ event' = ReturnEvent(d, e, FindErrorReturn(d, e), 0, 0)
                  /\ UNCHANGED <<pc, versions>>
    /\ UNCHANGED <<objects, version, result, pushPc, pushVersion, pushQueue, runs, hist>>

\* FindUnappliedVersion checks result.json of the newest version and returns;
\* the run returns unless a version was found
DriverCheck(d) ==
    /\ pc[d] = "listed"
    /\ \E headErr \in HeadObject(objects, NewestVersion(versions[d])) :
         LET r == FindCheck(versions[d], headErr)
         IN  IF r.err = NoError
             THEN /\ pc' = [pc EXCEPT ![d] = "found"]
                  /\ version' = [version EXCEPT ![d] = r.version]
                  /\ runs' = runs + 1
                  /\ event' = NoEvent
                  /\ UNCHANGED <<versions, result>>
             ELSE /\ pc' = [pc EXCEPT ![d] = "idle"]
                  /\ DriverLocals0(d)
                  /\ event' = ReturnEvent(d, r.err, FindErrorReturn(d, r.err), 0, 0)
                  /\ UNCHANGED runs
    /\ UNCHANGED <<objects, pushPc, pushVersion, pushQueue, hist>>

\* ExecuteMigration for the version found
DriverExecute(d) ==
    /\ pc[d] = "found"
    /\ \E env \in Envs :
         /\ result' = [result EXCEPT ![d] =
                         ExecuteMigration(version[d], objects[version[d]].files, env)]
         /\ hist' = [hist EXCEPT
                       !.executions[version[d]] = @ + 1,
                       !.runnerCalls[version[d]] = @ + (IF ReachesRunner(env) THEN 1 ELSE 0),
                       !.tempDirs = @ + TempDirsLeft(env)]
    /\ pc' = [pc EXCEPT ![d] = "executed"]
    /\ event' = NoEvent
    /\ UNCHANGED <<objects, versions, version, pushPc, pushVersion, pushQueue, runs>>

\* a run that returns without UploadResult when the migration failed
DriverUpload_skipFailed(d) ==
    /\ pc[d] = "executed"
    /\ \E putOk \in BOOLEAN :
         LET put == result[d].Status = "success"
         IN  /\ objects' = UploadResult(objects, version[d], result[d], put /\ putOk)
             /\ hist' = [hist EXCEPT
                           !.uploads[version[d]] = @ + (IF put THEN 1 ELSE 0),
                           !.uploaded[version[d]] = @ + (IF put /\ putOk THEN 1 ELSE 0)]
             /\ event' = ReturnEvent(d, NoError, UploadReturn(d, result[d], put /\ putOk),
                                     IF put THEN 1 ELSE 0, IF put /\ putOk THEN 1 ELSE 0)
    /\ pc' = [pc EXCEPT ![d] = "idle"]
    /\ DriverLocals0(d)
    /\ UNCHANGED <<pushPc, pushVersion, pushQueue, runs>>

\* UploadResult, then the run returns
DriverUpload(d) ==
    /\ pc[d] = "executed"
    /\ \E putOk \in BOOLEAN :
         /\ objects' = UploadResult(objects, version[d], result[d], putOk)
         /\ hist' = [hist EXCEPT !.uploads[version[d]] = @ + 1,
                                 !.uploaded[version[d]] = @ + (IF putOk THEN 1 ELSE 0)]
         /\ event' = ReturnEvent(d, NoError, UploadReturn(d, result[d], putOk), 1,
                                 IF putOk THEN 1 ELSE 0)
    /\ pc' = [pc EXCEPT ![d] = "idle"]
    /\ DriverLocals0(d)
    /\ UNCHANGED <<pushPc, pushVersion, pushQueue, runs>>

\* push.Execute returned `r` before any upload, or goes on to UploadMigrations
PushOutcome(v, files, r) ==
    IF r = "upload"
    THEN /\ pushPc' = "uploading"
         /\ pushVersion' = v
         /\ pushQueue' = files
         /\ event' = NoEvent
    ELSE /\ event' = PushEvent(r)
         /\ UNCHANGED <<pushPc, pushVersion, pushQueue>>

\* push.Execute up to the first upload, its inputs drawn in the order the
\* code reads them
PushStart ==
    /\ pushPc = "idle"
    /\ \E v \in PushVersions :
         IF ~ValidVersion(v)
         THEN PushOutcome(v, <<>>, PushCheck(v, {}, FALSE, FALSE, CheckResultExists("")))
         ELSE \E chk \in {CheckResultExists(h) : h \in HeadObject(objects, v)} :
                IF chk.err # NoError \/ chk.exists
                THEN PushOutcome(v, <<>>, PushCheck(v, {}, FALSE, FALSE, chk))
                ELSE \E in \in PushInputs, dryRun \in BOOLEAN :
                       PushOutcome(v, SqlFiles(in.dir),
                                   PushCheck(v, in.dir, in.validate, dryRun, chk))
    /\ UNCHANGED <<objects, pc, versions, version, result, runs, hist>>

\* UploadMigrations: one PutObject; push returns after the last file or on
\* the first failed upload
PushUpload ==
    /\ pushPc = "uploading"
    /\ \E putOk \in BOOLEAN :
         IF putOk /\ Tail(pushQueue) # <<>>
         THEN /\ objects' = PutMigration(objects, pushVersion, Head(pushQueue))
              /\ pushQueue' = Tail(pushQueue)
              /\ event' = NoEvent
              /\ UNCHANGED <<pushPc, pushVersion>>
         ELSE /\ objects' = IF putOk
                            THEN PutMigration(objects, pushVersion, Head(pushQueue))
                            ELSE objects
              /\ pushQueue' = <<>>
              /\ pushPc' = "idle"
              /\ pushVersion' = NoVersion
              /\ event' = PushEvent(IF putOk THEN "nil" ELSE "failed to upload migrations")
    /\ UNCHANGED <<pc, versions, version, result, runs, hist>>

\* an operator deletes <prefix><v>/result.json out-of-band
OperatorDelete(v) ==
    /\ objects[v].result # NoResult
    /\ objects' = [objects EXCEPT ![v].result = NoResult]
    /\ hist' = [hist EXCEPT !.deleted[v] = TRUE]
    /\ event' = [NoEvent EXCEPT !.who = "operator"]
    /\ UNCHANGED <<pc, versions, version, result, pushPc, pushVersion, pushQueue, runs>>

Next ==
    \/ \E d \in Drivers : Serial /\ DriverList(d) /\ UNCHANGED procVars
    \/ \E d \in Drivers : DriverCheck(d) /\ UNCHANGED procVars
    \/ \E d \in Drivers : DriverExecute(d) /\ UNCHANGED procVars
    \/ \E d \in Drivers : DriverUpload(d) /\ UNCHANGED procVars
    \/ PushStart /\ UNCHANGED procVars
    \/ PushUpload /\ UNCHANGED procVars
    \/ \E v \in DirNames : OperatorDelete(v) /\ UNCHANGED procVars

Spec == Init /\ [][Next]_vars

----------------------------------------------------------------------------
(* FindUnappliedVersion on its own: storage is drawn from the directories  *)
(* it can hold, and runs list and check it with nothing else going on      *)

\* result.json contents a driver can have written for `v`
StoredResults(v) ==
    {ExecuteMigration(v, DirA, env) : env \in {"none", "runner", "download"}}

\* a version directory holds migrations once published, and result.json
\* only after a run found it
DirStates(v) ==
    {EmptyDir, [files |-> DirA, result |-> NoResult]}
    \cup {[files |-> DirB, result |-> r] : r \in StoredResults(v)}

\* the variables of the drivers and of the publisher before any run
Idle0 ==
    /\ pc = [d \in Drivers |-> "idle"]
    /\ versions = [d \in Drivers |-> <<>>]
    /\ version = [d \in Drivers |-> NoVersion]
    /\ result = [d \in Drivers |-> NoResult]
    /\ pushPc = "idle"
    /\ pushVersion = NoVersion
    /\ pushQueue = <<>>
    /\ runs = 0
    /\ hist = [executions |-> [v \in DirNames |-> 0],
               runnerCalls |-> [v \in DirNames |-> 0],
               deleted |-> [v \in DirNames |-> FALSE],
               uploads |-> [v \in DirNames |-> 0],
               uploaded |-> [v \in DirNames |-> 0],
               tempDirs |-> 0]
    /\ event = NoEvent

\* the variables other than storage, before any run
Locals0 ==
    /\ Idle0
    /\ loop = NoLoop
    /\ waiter = NoWaiter
    /\ slack = NoSlack

InitFind ==
    /\ objects \in {f \in [DirNames -> UNION {DirStates(v) : v \in DirNames}] :
                      \A v \in DirNames : f[v] \in DirStates(v)}
    /\ Locals0

NextFind ==
    \/ \E d \in Drivers : Serial /\ DriverList(d) /\ UNCHANGED procVars
    \/ \E d \in Drivers : DriverCheck(d) /\ UNCHANGED procVars

SpecFind == InitFind /\ [][NextFind]_vars

----------------------------------------------------------------------------
(* FindUnappliedVersion over a prefix that also holds directories whose    *)
(* names are not versions                                                  *)

\* "latest"
DirLatest == <<108,97,116,101,115,116>>

\* the directory names under the prefix: two versions, and two names that
\* are not 14 digits ("2024010100000a", "latest")
ListNames == {V1, V2, VAlpha, DirLatest}

InitList ==
    /\ objects \in [ListNames -> {EmptyDir, [files |-> DirA, result |-> NoResult]}]
    /\ Locals0

SpecList == InitList /\ [][NextFind]_vars

----------------------------------------------------------------------------
(* push.Execute on its own: pushes are made, one after another, into a     *)
(* storage where 20240102000000 may have been applied already              *)

InitPush ==
    /\ objects \in {[d \in DirNames |-> IF d = V2 THEN s ELSE EmptyDir] :
                      s \in {EmptyDir,
                              [files |-> DirA,
                               result |-> ExecuteMigration(V2, DirA, "none")]}}
    /\ Locals0

NextPush ==
    \/ PushStart /\ UNCHANGED procVars
    \/ PushUpload /\ UNCHANGED procVars

SpecPush == InitPush /\ [][NextPush]_vars

----------------------------------------------------------------------------
(* UploadResult and CheckResultExists on their own: results are written to *)
(* published versions, again and again, and looked for                     *)

InitUpload ==
    /\ objects = [v \in DirNames |-> [files |-> DirA, result |-> NoResult]]
    /\ Locals0

\* a caller builds a Result for a version and calls UploadResult with it, as
\* TestUploadResult does
TestUploadResult(d) ==
    /\ pc[d] = "idle"
    /\ hist.uploads[V1] + hist.uploads[V2] + hist.uploads[V3] < MaxRuns
    /\ \E v \in DirNames, env \in {"none", "runner"} :
         /\ version' = [version EXCEPT ![d] = v]
         /\ result' = [result EXCEPT ![d] = ExecuteMigration(v, objects[v].files, env)]
    /\ hist' = [hist EXCEPT !.executions[version'[d]] = @ + 1]
    /\ pc' = [pc EXCEPT ![d] = "executed"]
    /\ event' = NoEvent
    /\ UNCHANGED <<objects, versions, pushPc, pushVersion, pushQueue, runs>>

NextUpload ==
    \/ Serial /\ TestUploadResult("once") /\ UNCHANGED procVars
    \/ DriverUpload("once") /\ UNCHANGED procVars
    \/ \E d \in Drivers : Serial /\ DriverList(d) /\ UNCHANGED procVars
    \/ \E d \in Drivers : DriverCheck(d) /\ UNCHANGED procVars

SpecUpload == InitUpload /\ [][NextUpload]_vars

----------------------------------------------------------------------------
(* daemon.Execute: one migration check at startup, then one per tick of    *)
(* the ticker, next to the publisher                                       *)

\* daemon.Execute has created its ticker: the first check needs no tick.
\* tick is the ticker's channel (one slot), fired whether the ticker has
\* fired since it was created, checks the number of runMigrationCheck calls
\* that have not returned
LoopStart == [pc |-> "startup", tick |-> FALSE, fired |-> FALSE, checks |-> 0]

\* a daemon.Execute that returns when a check logged an error
AfterCheck_stopsOnError(msg) ==
    IF msg \in {"Failed to find unapplied version", "Failed to upload result",
                "Migration failed"}
    THEN "exited" ELSE "waiting"

\* where the loop goes when runMigrationCheck has returned: it returns
\* nothing, and the loop waits for the next tick whatever it logged
AfterCheck(msg) == "waiting"

\* the loop position after a step of runMigrationCheck that left the run at p
LoopAfter(p, ev) == IF p = "idle" THEN AfterCheck(ev.msg) ELSE "running"

\* the calls of runMigrationCheck in progress, of n, after a step that left
\* the run at p
ChecksAfter(n, p) == IF p = "idle" THEN n - 1 ELSE n

\* the ticker fires: its channel holds one tick, a further one is dropped
TickerFire ==
    /\ loop.pc \in {"startup", "running", "waiting"}
    /\ loop' = [loop EXCEPT !.tick = TRUE, !.fired = TRUE]
    /\ UNCHANGED <<objects, pc, versions, version, result, pushPc, pushVersion,
                   pushQueue, runs, hist, event, waiter, slack>>

\* a daemon.Execute that checks at startup only and never reads ticker.C
DaemonBegin_startupOnly ==
    /\ loop.pc = "startup"
    /\ DriverList("daemon")
    /\ loop' = [pc |-> LoopAfter(pc'["daemon"], event'), tick |-> loop.tick,
                fired |-> loop.fired,
                checks |-> ChecksAfter(loop.checks + 1, pc'["daemon"])]
    /\ UNCHANGED <<waiter, slack>>

\* a daemon.Execute that makes its first check on the first tick
DaemonBegin_waitsForTick ==
    /\ loop.pc \in {"startup", "waiting"} /\ loop.tick
    /\ DriverList("daemon")
    /\ loop' = [pc |-> LoopAfter(pc'["daemon"], event'), tick |-> FALSE,
                fired |-> loop.fired,
                checks |-> ChecksAfter(loop.checks + 1, pc'["daemon"])]
    /\ UNCHANGED <<waiter, slack>>

\* a daemon.Execute that starts a goroutine with runMigrationCheck for every
\* tick, whether or not the check before it has returned
DaemonBegin_goroutine ==
    /\ loop.pc = "startup" \/ loop.tick
    /\ IF pc["daemon"] = "idle"
       THEN /\ DriverList("daemon")
            /\ loop' = [pc |-> LoopAfter(pc'["daemon"], event'),
                        tick |-> IF loop.pc = "startup" THEN loop.tick ELSE FALSE,
                        fired |-> loop.fired,
                        checks |-> ChecksAfter(loop.checks + 1, pc'["daemon"])]
       ELSE /\ loop' = [loop EXCEPT !.tick = FALSE, !.checks = @ + 1]
            /\ UNCHANGED <<objects, pc, versions, version, result, pushPc,
                           pushVersion, pushQueue, runs, hist, event>>
    /\ UNCHANGED <<waiter, slack>>

\* runMigrationCheck is called, at startup or for the tick received
DaemonBegin ==
    /\ loop.pc = "startup" \/ (loop.pc = "waiting" /\ loop.tick)
    /\ DriverList("daemon")
    /\ loop' = [pc |-> LoopAfter(pc'["daemon"], event'),
                tick |-> IF loop.pc = "startup" THEN loop.tick ELSE FALSE,
                fired |-> loop.fired,
                checks |-> ChecksAfter(loop.checks + 1, pc'["daemon"])]
    /\ UNCHANGED <<waiter, slack>>

DaemonCheck ==
    /\ loop.pc = "running"
    /\ DriverCheck("daemon")
    /\ loop' = [loop EXCEPT !.pc = LoopAfter(pc'["daemon"], event'),
                            !.checks = ChecksAfter(@, pc'["daemon"])]
    /\ UNCHANGED <<waiter, slack>>

DaemonExecute ==
    /\ loop.pc = "running"
    /\ DriverExecute("daemon")
    /\ UNCHANGED procVars

DaemonUpload ==
    /\ loop.pc = "running"
    /\ DriverUpload("daemon")
    /\ loop' = [loop EXCEPT !.pc = LoopAfter(pc'["daemon"], event'),
                            !.checks = ChecksAfter(@, pc'["daemon"])]
    /\ UNCHANGED <<waiter, slack>>

InitDaemon ==
    /\ objects = [d \in DirNames |-> EmptyDir]
    /\ Idle0
    /\ loop = LoopStart
    /\ waiter = NoWaiter
    /\ slack = NoSlack

NextDaemon ==
    \/ TickerFire
    \/ DaemonBegin
    \/ DaemonCheck
    \/ DaemonExecute
    \/ DaemonUpload
    \/ PushStart /\ UNCHANGED procVars
    \/ PushUpload /\ UNCHANGED procVars

SpecDaemon == InitDaemon /\ [][NextDaemon]_vars

\* the daemon with storage calls that succeed: the list call, the existence
\* check and the upload of the outcome return no error
DaemonBeginOk == DaemonBegin /\ event'.err # ErrList
DaemonCheckOk == DaemonCheck /\ event'.err # ErrCheck
DaemonUploadOk == DaemonUpload /\ event'.putOk = 1

\* the next step of the daemon process
DaemonStepOk ==
    \/ DaemonBeginOk
    \/ DaemonCheckOk
    \/ DaemonExecute
    \/ DaemonUploadOk

NextDaemonOk ==
    \/ TickerFire
    \/ DaemonStepOk
    \/ PushStart /\ UNCHANGED procVars
    \/ PushUpload /\ UNCHANGED procVars

\* the ticker keeps firing and the daemon process keeps running
SpecDaemonLive ==
    /\ InitDaemon
    /\ [][NextDaemonOk]_vars
    /\ WF_vars(TickerFire)
    /\ WF_vars(DaemonStepOk)

----------------------------------------------------------------------------
(* Two driver instances at once: a once run and a daemon tick overlap      *)

\* some versions are published, none has result.json
InitRace ==
    /\ objects \in [DirNames -> {EmptyDir, [files |-> DirA, result |-> NoResult]}]
    /\ Locals0

NextRace ==
    \/ \E d \in Drivers : DriverList(d) /\ UNCHANGED procVars
    \/ \E d \in Drivers : DriverCheck(d) /\ UNCHANGED procVars
    \/ \E d \in Drivers : DriverExecute(d) /\ UNCHANGED procVars
    \/ \E d \in Drivers : DriverUpload(d) /\ UNCHANGED procVars

SpecRace == InitRace /\ [][NextRace]_vars

----------------------------------------------------------------------------
(* Properties of FindUnappliedVersion *)

\* the version directories in storage, and the one with the greatest name
Existing(store) == {v \in DOMAIN store : DirExists(store, v)}
Greatest(store) ==
    CHOOSE v \in Existing(store) : \A w \in Existing(store) : w = v \/ StrLess(w, v)

\* a run of driver d leaves FindUnappliedVersion's existence check in this step
ChecksNewest(d) == pc[d] = "listed" /\ pc'[d] # "listed"

\* C1: when the lexicographically greatest version directory has no
\* result.json, FindUnappliedVersion returns exactly that directory name,
\* whatever the older versions' outcomes are (unless the existence check
\* itself fails); and whatever it returns is that directory.
C1_ReturnsGreatestUnapplied ==
    [][\A d \in Drivers :
         /\ (ChecksNewest(d) /\ objects[Greatest(objects)].result = NoResult)
              => \/ pc'[d] = "found" /\ version'[d] = Greatest(objects)
                 \/ pc'[d] = "idle" /\ event'.err = ErrCheck
         /\ (ChecksNewest(d) /\ pc'[d] = "found")
              => /\ version'[d] = Greatest(objects)
                 /\ objects[version'[d]].result = NoResult]_vars

\* C1 witness: the greatest of three directories was returned while an older
\* one is applied and another older one is not
C1_Witness ==
    /\ pc["once"] = "found" /\ version["once"] = V3
    /\ objects[V1].result.Status = "failed"
    /\ objects[V2].files # NoFiles /\ objects[V2].result = NoResult

\* C2: when the greatest version directory has result.json,
\* FindUnappliedVersion fails with "no unapplied versions found" (or with the
\* error of the existence check), also when older versions have none: no
\* older version is ever returned.
C2_NoFallbackToOlder ==
    [][\A d \in Drivers :
         (ChecksNewest(d) /\ objects[Greatest(objects)].result # NoResult)
           => /\ pc'[d] = "idle"
              /\ version'[d] = NoVersion
              /\ event'.who = d
              /\ event'.err \in {ErrNoUnapplied, ErrCheck}]_vars

\* C2 witness: "no unapplied versions found" was returned while two older
\* versions have no result.json
C2_Witness ==
    /\ event.who = "daemon" /\ event.err = ErrNoUnapplied
    /\ objects[V3].result # NoResult
    /\ \A v \in {V1, V2} : objects[v].files # NoFiles /\ objects[v].result = NoResult

\* C3: when no version directory exists, FindUnappliedVersion fails with
\* "no versions found" (or with the error of the list call), an error other
\* than "no unapplied versions found", and the run returns from the listing
\* step, before the step that asks for result.json.
C3_NoVersionsFound ==
    [][\A d \in Drivers :
         (Existing(objects) = {} /\ pc[d] = "idle" /\ (pc'[d] # "idle" \/ event'.who = d))
           => /\ pc'[d] = "idle"
              /\ event'.err \in {ErrNoVersions, ErrList}
              /\ event'.err # ErrNoUnapplied
              /\ ErrNoVersions # ErrNoUnapplied
              /\ event'.puts = 0]_vars

\* C3 witness: a run returned "no versions found" from empty storage
C3_Witness ==
    /\ Existing(objects) = {}
    /\ event.who = "once" /\ event.err = ErrNoVersions
    /\ pc["once"] = "idle"

----------------------------------------------------------------------------
(* Properties of the driver runs *)

\* C4: with once runs and daemon ticks made strictly one after another and
\* no out-of-band deletion of a version's result.json, the migration runner
\* is invoked at most once for that version.
C4_RunnerAtMostOncePerVersion ==
    \A v \in DirNames : ~hist.deleted[v] => hist.runnerCalls[v] <= 1

\* C5: while a result.json with status failed is in storage for a version,
\* no run is about to execute or is executing that version.
C5_FailedVersionNotExecutedAgain ==
    \A d \in Drivers, v \in DirNames :
        (objects[v].result.Status = "failed" /\ pc[d] \in {"found", "executed"})
          => version[d] # v

\* C5 witness: a failed outcome is recorded for V1, the only run that executed
\* it, and a later run returned "no unapplied versions found"
C5_Witness ==
    /\ objects[V1].result.Status = "failed"
    /\ hist.executions[V1] = 1 /\ ~hist.deleted[V1]
    /\ event.err = ErrNoUnapplied

\* C6: a run executes, and writes result.json for, only a version that no
\* version of its own listing is greater than.
C6_OnlyNewestOfListing ==
    [][\A d \in Drivers :
         (pc[d] \in {"found", "executed"} /\ pc'[d] # pc[d])
           => /\ \A w \in Range(versions[d]) : w = version[d] \/ StrLess(w, version[d])
              /\ \A v \in DirNames :
                   objects'[v].result # objects[v].result => v = version[d]]_vars

\* C6 witness: V2 was executed from a listing that held V1 too, while V1 has
\* no result.json
C6_Witness ==
    /\ pc["daemon"] = "executed" /\ version["daemon"] = V2
    /\ versions["daemon"] = <<V1, V2>>
    /\ objects[V1].result = NoResult
    /\ hist.executions[V1] = 0

\* the answers CheckResultExists can give for v
CheckAnswers(store, v) == {CheckResultExists(h) : h \in HeadObject(store, v)}

\* C7: after a successful UploadResult for a version, whatever the status in
\* the record and whether or not a record was there before, CheckResultExists
\* answers true for it (and never false), and FindUnappliedVersion does not
\* return a version that has the record.
C7_OutcomeMarksApplied ==
    /\ [][\A d \in Drivers :
            (pc[d] = "executed" /\ pc'[d] = "idle" /\ event'.putOk = 1)
              => /\ [exists |-> TRUE, err |-> NoError] \in CheckAnswers(objects', version[d])
                 /\ [exists |-> FALSE, err |-> NoError] \notin CheckAnswers(objects', version[d])]_vars
    /\ [](\A d \in Drivers : pc[d] = "found" => objects[version[d]].result = NoResult)

\* C7 witness: a failed outcome was uploaded twice for V3, and a later
\* FindUnappliedVersion answered "no unapplied versions found"
C7_Witness ==
    /\ hist.uploaded[V3] = 2
    /\ objects[V3].result.Status = "failed"
    /\ event.err = ErrNoUnapplied

\* C8: every ExecuteMigration call of a run is followed by exactly one
\* UploadResult call of that run, for the version executed and with the
\* outcome of that execution, whatever the outcome is.
C8_OneUploadPerExecution ==
    /\ [](\A v \in DirNames :
            hist.executions[v] =
              hist.uploads[v] + Cardinality({d \in Drivers : pc[d] = "executed" /\ version[d] = v}))
    /\ [][\A d \in Drivers :
            (pc[d] = "executed" /\ pc'[d] # "executed")
              => /\ event'.puts = 1
                 /\ hist'.uploads[version[d]] = hist.uploads[version[d]] + 1
                 /\ event'.putOk = 1 => objects'[version[d]].result = result[d]]_vars

\* C8 witness: an execution that failed before the runner was followed by
\* the upload of its outcome
C8_Witness ==
    /\ hist.executions[V1] = 1 /\ hist.runnerCalls[V1] = 0 /\ hist.uploads[V1] = 1
    /\ objects[V1].result.Status = "failed"
    /\ event.puts = 1

\* C9: ExecuteMigration returns a Result whatever step fails: a failing step
\* gives status failed, a non-empty error and the log lines written up to
\* it; status success with an empty error is returned only when no step
\* fails; the status is always success or failed.
C9_AlwaysAnOutcome ==
    /\ \A d \in Drivers : pc[d] = "found" =>
          \A env \in Envs :
            LET r == ExecuteMigration(version[d], objects[version[d]].files, env)
            IN  /\ r.Version = version[d]
                /\ r.Status \in {"success", "failed"}
                /\ r.Status = "success" <=> env = "none"
                /\ r.Status = "success" <=> r.Error = ""
                /\ Len(r.Log) >= Len(LogStart) /\ SubSeq(r.Log, 1, Len(LogStart)) = LogStart
                /\ \A e2 \in Envs \ {"none"} :
                     (env # "none" /\ StepIndex(env) < StepIndex(e2))
                       => Len(r.Log) <= Len(ExecuteMigration(version[d],
                                                            objects[version[d]].files, e2).Log)
    /\ \A d \in Drivers : pc[d] = "executed" =>
          /\ result[d].Status \in {"success", "failed"}
          /\ result[d].Status = "failed" <=> result[d].Error # ""
          /\ result[d].Log # <<>>
          /\ result[d].Version = version[d]

\* C9 witness: an execution whose connection string did not parse returned
\* a failed outcome
C9_Witness ==
    /\ pc["once"] = "executed"
    /\ result["once"].Error = "Invalid DATABASE_URL: %v"
    /\ result["once"].Status = "failed"

\* C10: once.Execute returns nil when FindUnappliedVersion fails with "no
\* versions found" or with "no unapplied versions found", and that run invokes
\* no ExecuteMigration and no runner and makes no PutObject call.
C10_OnceIdleIsSuccess ==
    [][(event'.who = "once" /\ event'.err \in {ErrNoVersions, ErrNoUnapplied})
         => /\ event'.value = "nil"
            /\ event'.puts = 0
            /\ objects' = objects
            /\ hist' = hist]_vars

\* C10 witness: a once run returned nil for "no unapplied versions found"
\* after V1 was executed
C10_Witness ==
    /\ event.who = "once" /\ event.err = ErrNoUnapplied /\ event.value = "nil"
    /\ hist.runnerCalls[V1] = 1
    /\ objects[V1].result # NoResult

\* C11: a once run that found a version returns nil exactly when the
\* outcome status is success and UploadResult succeeded; when it returns
\* "migration failed" the failed outcome is already in storage, and whatever
\* the outcome, UploadResult was called before the run returned.
C11_OnceReturnMirrorsOutcome ==
    [][(pc["once"] = "executed" /\ pc'["once"] = "idle")
         => /\ event'.who = "once"
            /\ event'.puts = 1
            /\ event'.value = "nil"
                 <=> (result["once"].Status = "success" /\ event'.putOk = 1)
            /\ event'.value # "nil" => event'.value = "error"
            /\ (result["once"].Status = "failed" /\ event'.putOk = 1)
                 => /\ event'.msg = "migration failed"
                    /\ objects'[version["once"]].result = result["once"]
            /\ event'.msg = "migration failed"
                 => objects'[version["once"]].result.Status = "failed"]_vars

\* C11 witness: a once run returned "migration failed" with the failed
\* outcome of V1 in storage
C11_Witness ==
    /\ event.who = "once" /\ event.value = "error" /\ event.msg = "migration failed"
    /\ objects[V1].result.Status = "failed"
    /\ hist.uploaded[V1] = 1

----------------------------------------------------------------------------
(* Properties of the daemon loop *)

\* C12: the daemon loop never leaves for good: whatever a migration check
\* ends in (list error, existence-check error, failed migration, failed
\* upload of the outcome), the loop goes back to waiting for the ticker, and
\* while it waits with a tick received the next migration check can start.
C12_DaemonKeepsTicking ==
    /\ [](loop.pc \in {"startup", "running", "waiting"})
    /\ [](loop.pc = "waiting" => pc["daemon"] = "idle")
    /\ []((loop.pc = "waiting" /\ loop.tick /\ runs < MaxRuns) => ENABLED DaemonBegin)
    /\ [][(loop.pc \in {"startup", "running", "waiting"} /\ pc'["daemon"] = "idle"
             /\ loop'.pc # loop.pc)
            => loop'.pc = "waiting"]_vars

\* C12 witness: a migration check is running although the upload of an
\* earlier check's outcome failed
C12_Witness ==
    /\ loop.pc = "running" /\ pc["daemon"] = "listed"
    /\ hist.uploads[V1] > hist.uploaded[V1]
    /\ hist.executions[V1] = 1

\* C13: with the daemon running and storage calls succeeding, whenever the
\* greatest published version has no result.json, a state follows in which
\* the greatest published version has been executed and has result.json: a
\* version that stays the greatest gets executed and recorded.
C13_PublishedVersionGetsApplied ==
    (Existing(objects) # {} /\ objects[Greatest(objects)].result = NoResult)
      ~> /\ Existing(objects) # {}
         /\ objects[Greatest(objects)].result # NoResult
         /\ hist.executions[Greatest(objects)] >= 1

\* C13 witness: V2 was published after the daemon had started and applied
\* V1, and the daemon executed V2 and stored its outcome
C13_Witness ==
    /\ objects[V1].result # NoResult /\ objects[V2].result # NoResult
    /\ hist.executions[V2] = 1 /\ hist.uploaded[V2] = 1
    /\ loop.pc = "waiting"

\* C30: at startup the daemon can begin a check without any tick, and that
\* check leaves the ticker's channel as it is; a waiting daemon does nothing
\* until a tick is there, begins a check by taking the tick, and can begin
\* one for every tick whatever the last check returned; the ticker keeps
\* firing while the daemon waits.
C30_StartupCheckThenTicks ==
    /\ []((loop.pc = "startup" /\ runs < MaxRuns) => ENABLED DaemonBegin)
    /\ [][(loop.pc = "startup" /\ loop'.pc # "startup")
            => loop'.tick = loop.tick /\ loop'.fired = loop.fired]_vars
    /\ [][(loop.pc = "waiting" /\ ~loop.tick)
            => /\ loop'.pc = "waiting" /\ pc'["daemon"] = pc["daemon"]
               /\ event'.who = "daemon" => event' = event]_vars
    /\ [][(loop.pc = "waiting" /\ loop'.pc = "running")
            => loop.tick /\ ~loop'.tick]_vars
    /\ []((loop.pc = "waiting" /\ loop.tick /\ runs < MaxRuns)
            => \A msg \in {"Migration failed", "Failed to upload result",
                            "Failed to find unapplied version"} :
                 event.msg = msg => ENABLED DaemonBegin)
    /\ [](loop.pc = "waiting" => ENABLED TickerFire)

\* C30 witness: the first check has returned and the ticker has not fired yet
C30_Witness ==
    /\ loop.pc = "waiting" /\ ~loop.fired
    /\ event.who = "daemon" /\ event.msg = "Migration completed successfully"
    /\ hist.executions[V1] = 1

----------------------------------------------------------------------------
(* Properties of overlapping drivers *)

\* C14: with two drivers running at once nothing arbitrates between them: a
\* run that has executed a version can always upload its outcome without
\* error, whether or not result.json is there already, and a successful
\* upload leaves exactly that run's outcome in storage (the last writer's).
C14_LastWriteWins ==
    /\ [](\A d \in Drivers : pc[d] = "executed" =>
            ENABLED (DriverUpload(d) /\ event'.putOk = 1 /\ UNCHANGED procVars))
    /\ [][\A d \in Drivers :
            (pc[d] = "executed" /\ pc'[d] = "idle" /\ event'.putOk = 1)
              => /\ objects'[version[d]].result = result[d]
                 /\ event'.msg \in {"Migration completed successfully",
                                     "migration failed", "Migration failed"}]_vars

\* C14 witness: both drivers found V1 without result.json, both invoked the
\* runner for it and both uploaded an outcome without error; the record in
\* storage is the failed outcome of the run that returned last, written over
\* the other run's
C14_Witness ==
    /\ hist.executions[V1] = 2 /\ hist.runnerCalls[V1] = 2
    /\ hist.uploads[V1] = 2 /\ hist.uploaded[V1] = 2
    /\ ~hist.deleted[V1]
    /\ event.putOk = 1 /\ event.msg = "migration failed"
    /\ objects[V1].result.Status = "failed"

\* the daemon's tick leaves the existence check of a newest version whose
\* stored outcome is failed, HeadObject having answered
FailedNewestChecked ==
    /\ pc["daemon"] = "listed" /\ pc'["daemon"] # "listed"
    /\ event'.err # ErrCheck
    /\ objects[NewestVersion(versions["daemon"])].result.Status = "failed"

\* C15 as stated: a tick that finds the newest version with a failed outcome
\* executes that version again.
C15_FailedVersionRetriedEveryTick ==
    [][FailedNewestChecked => pc'["daemon"] = "found"]_vars

\* C15 amended: a tick that finds the newest version with a failed outcome
\* in storage ends with "no unapplied versions found" and executes nothing;
\* the failed version is not executed again while its record stays.
C15_FailedVersionNotRetried ==
    [][FailedNewestChecked
         => /\ pc'["daemon"] = "idle"
            /\ loop'.pc = "waiting"
            /\ event'.err = ErrNoUnapplied
            /\ event'.msg = "All versions are already applied"
            /\ hist' = hist /\ objects' = objects]_vars

\* C15 witness: V1 failed in the one execution made of it, its outcome is
\* stored, and a later tick ended with "no unapplied versions found"
C15_Witness ==
    /\ objects[V1].result.Status = "failed"
    /\ hist.executions[V1] = 1 /\ hist.uploaded[V1] = 1
    /\ loop.pc = "waiting"
    /\ event.who = "daemon" /\ event.err = ErrNoUnapplied

----------------------------------------------------------------------------
(* wait.Execute: WaitForResult for one version, next to a daemon that      *)
(* applies it, then the optional Slack notification                        *)

\* the timeout of WaitForResult, in poll intervals (5s / 1s)
WaitTimeoutTicks == 5

\* maxRetries of downloadResultWithRetry
maxRetries == 3

\* c.MigrationVersion
WaitVersion == V1

ErrTimeout == "timeout waiting for result after %v (checked %d times)"
ErrDownload == "failed to download result after %d attempts"
ErrCanceled == "context canceled"
ErrDeadline == "context deadline exceeded"

\* what SendSlackNotification can come to: not called, delivered, failed
SlackOutcomes == {"skipped", "delivered", "failed"}

driverVars ==
    <<objects, pc, versions, version, result, pushPc, pushVersion, pushQueue,
      runs, hist, event, loop, slack>>

\* wait.Execute before it is called.  clock counts the poll intervals since
\* the call, tick is the ticker's channel (one slot), dropped the ticks that
\* found the slot full, done the state of the context WaitForResult selects
\* on, dl the attempt of downloadResultWithRetry, backoff its backoff in
\* seconds and slept the backoffs it has waited for, webhook whether
\* c.SlackIncomingWebhook is set
WaiterIdle ==
    [pc |-> "off", attempt |-> 0, polls |-> 0, clock |-> 0, tick |-> FALSE,
     dropped |-> 0, done |-> "", checkErr |-> NoError, found |-> "",
     dl |-> 0, backoff |-> 0, slept |-> <<>>,
     result |-> NoResult, err |-> NoError, notified |-> "", ret |-> "",
     webhook |-> FALSE]

\* the responses of GetObject for <prefix><v>/result.json: an error, or the
\* stored result
GetObject(store, v) ==
    {[err |-> TRUE, body |-> NoResult]}
    \cup (IF store[v].result # NoResult
          THEN {[err |-> FALSE, body |-> store[v].result]} ELSE {})

\* a WaitForResult that leaves the first check to the first tick
ImmediateCheck_waitsForTick(chk) == "polling"

\* WaitForResult after its immediate check: the error of the check is
\* discarded, only `exists` counts
ImmediateCheck(chk) == IF chk.exists THEN "download" ELSE "polling"

\* a WaitForResult whose attempt count leaves out the immediate check
AttemptsAfterImmediate_uncounted(attempt) == attempt

\* attempt after the immediate check (attempt++)
AttemptsAfterImmediate(attempt) == attempt + 1

\* the error WaitForResult's poll loop returns when the context is done,
\* cancelled or past its deadline alike
PollDoneError(done) == ErrTimeout

\* a wait.Execute that returns the error of the notification
WaitReturn_notifyError(res, notified) ==
    IF notified = "failed" THEN "failed to send Slack notification"
    ELSE IF res.Status # "success" THEN "migration failed: %s" ELSE "nil"

\* the return of wait.Execute once it holds a result
WaitReturn(res, notified) ==
    IF res.Status # "success" THEN "migration failed: %s" ELSE "nil"

\* wait.Execute up to the end of WaitForResult's immediate check
WaitStart ==
    /\ waiter.pc = "off"
    /\ \E headErr \in HeadObject(objects, WaitVersion) :
         LET chk == CheckResultExists(headErr)
             to == ImmediateCheck(chk)
         IN  waiter' = [waiter EXCEPT
                          !.pc = to,
                          !.attempt = AttemptsAfterImmediate(waiter.attempt),
                          !.checkErr = chk.err,
                          !.found = IF to = "download" THEN "immediately" ELSE "",
                          !.dl = IF to = "download" THEN 1 ELSE 0,
                          !.backoff = IF to = "download" THEN 1 ELSE 0]
    /\ UNCHANGED driverVars

\* a WaitForResult whose context ends one poll interval before the timeout
DeadlineReached_early(clock) == clock >= WaitTimeoutTicks - 1

\* context.WithTimeout(ctx, timeout): the deadline is reached when `timeout`
\* has passed since the call
DeadlineReached(clock) == clock >= WaitTimeoutTicks

\* one poll interval passes: the ticker sends a tick, which is dropped when
\* the last one was not received, and at WaitTimeoutTicks the deadline is
\* reached.  Time is followed up to the deadline.
WaitClock ==
    /\ waiter.pc \in {"polling", "download", "backoff"}
    /\ waiter.clock < WaitTimeoutTicks
    /\ waiter' = [waiter EXCEPT
                    !.clock = @ + 1,
                    !.tick = TRUE,
                    !.dropped = @ + (IF waiter.tick THEN 1 ELSE 0),
                    !.done = IF waiter.done = "" /\ DeadlineReached(waiter.clock + 1)
                             THEN "deadline" ELSE @]
    /\ UNCHANGED driverVars

\* the caller of WaitForResult cancels the context it passed
CallerCancel ==
    /\ waiter.pc \in {"polling", "download", "backoff"}
    /\ waiter.done = ""
    /\ waiter' = [waiter EXCEPT !.done = "canceled"]
    /\ UNCHANGED driverVars

\* the poll loop's select takes <-ctx.Done()
WaitDone ==
    /\ waiter.pc = "polling"
    /\ waiter.done # ""
    /\ waiter' = [waiter EXCEPT !.pc = "waited", !.err = PollDoneError(waiter.done)]
    /\ UNCHANGED driverVars

\* a poll loop that returns when the existence check fails
PollCheck_errorEnds(chk) ==
    IF chk.err # NoError THEN "waited" ELSE IF chk.exists THEN "download" ELSE "polling"

\* the poll loop after its existence check: an error is logged and the loop
\* continues, as it does when the result is absent
PollCheck(chk) ==
    IF chk.err # NoError THEN "polling" ELSE IF chk.exists THEN "download" ELSE "polling"

\* the poll loop's select takes <-ticker.C: one more existence check
WaitTick ==
    /\ waiter.pc = "polling"
    /\ waiter.tick
    /\ \E headErr \in HeadObject(objects, WaitVersion) :
         LET chk == CheckResultExists(headErr)
             to == PollCheck(chk)
         IN  waiter' = [waiter EXCEPT
                          !.pc = to,
                          !.tick = FALSE,
                          !.attempt = @ + 1,
                          !.polls = @ + 1,
                          !.checkErr = chk.err,
                          !.found = IF to = "download" THEN "polled" ELSE "",
                          !.dl = IF to = "download" THEN 1 ELSE 0,
                          !.backoff = IF to = "download" THEN 1 ELSE 0]
    /\ UNCHANGED driverVars

\* a downloadResultWithRetry whose backoff stays the same
NextBackoff_constant(backoff) == backoff

\* backoff *= 2
NextBackoff(backoff) == backoff * 2

\* downloadResultWithRetry: one downloadResult
WaitDownload ==
    /\ waiter.pc = "download"
    /\ \E resp \in GetObject(objects, WaitVersion) :
         waiter' = IF ~resp.err
                   THEN [waiter EXCEPT !.pc = "waited", !.result = resp.body]
                   ELSE IF waiter.dl < maxRetries
                   THEN [waiter EXCEPT !.pc = "backoff"]
                   ELSE [waiter EXCEPT !.pc = "waited", !.err = ErrDownload]
    /\ UNCHANGED driverVars

\* downloadResultWithRetry between two attempts: the context is done, or the
\* backoff has passed
WaitBackoff ==
    /\ waiter.pc = "backoff"
    /\ \/ /\ waiter.done # ""
          /\ waiter' = [waiter EXCEPT
                          !.pc = "waited",
                          !.err = IF waiter.done = "canceled" THEN ErrCanceled
                                  ELSE ErrDeadline]
       \/ waiter' = [waiter EXCEPT !.pc = "download", !.dl = @ + 1,
                                   !.slept = Append(@, waiter.backoff),
                                   !.backoff = NextBackoff(@)]
    /\ UNCHANGED driverVars

\* a wait.Execute that notifies of the error of WaitForResult too
NotifyOutcomes_onError(err, hasSlackWebhook) ==
    IF hasSlackWebhook THEN {"delivered", "failed"} ELSE {"skipped"}

\* what the notification of wait.Execute comes to after WaitForResult
\* returned `err`: "" when wait.Execute returns before it
NotifyOutcomes(err, hasSlackWebhook) ==
    IF err # NoError THEN {""}
    ELSE IF hasSlackWebhook THEN {"delivered", "failed"} ELSE {"skipped"}

\* wait.Execute after WaitForResult: the error is returned, or the
\* notification is sent (if configured) and the status decides
WaitFinish ==
    /\ waiter.pc = "waited"
    /\ \E n \in NotifyOutcomes(waiter.err, waiter.webhook) :
         waiter' = [waiter EXCEPT
                      !.pc = "returned",
                      !.notified = n,
                      !.ret = IF waiter.err # NoError THEN waiter.err
                              ELSE WaitReturn(waiter.result, n)]
    /\ UNCHANGED driverVars

WaiterStep ==
    WaitStart \/ WaitDone \/ WaitTick \/ WaitDownload \/ WaitBackoff \/ WaitFinish

\* V1 is published and not applied; the daemon and the waiter have not started
InitWait ==
    /\ objects = [d \in DirNames |->
                    IF d = WaitVersion THEN [files |-> DirA, result |-> NoResult]
                    ELSE EmptyDir]
    /\ Idle0
    /\ loop = NoLoop
    /\ waiter \in {[WaiterIdle EXCEPT !.webhook = b] : b \in BOOLEAN}
    /\ slack = NoSlack

NextWait ==
    \/ WaitStart
    \/ WaitClock
    \/ CallerCancel
    \/ WaitDone
    \/ WaitTick
    \/ WaitDownload
    \/ WaitBackoff
    \/ WaitFinish
    \/ DriverList("daemon") /\ UNCHANGED procVars
    \/ DriverCheck("daemon") /\ UNCHANGED procVars
    \/ DriverExecute("daemon") /\ UNCHANGED procVars
    \/ DriverUpload("daemon") /\ UNCHANGED procVars

SpecWait == InitWait /\ [][NextWait]_vars

\* time passes and the waiter's goroutine runs
SpecWaitLive == SpecWait /\ WF_vars(WaitClock) /\ WF_vars(WaiterStep)

\* the waiter with storage reads that succeed and a caller that does not
\* cancel: the existence checks and the download return no error
WaitStartOk == WaitStart /\ waiter'.checkErr = NoError
WaitTickOk == WaitTick /\ waiter'.checkErr = NoError
WaitDownloadOk == WaitDownload /\ waiter'.pc = "waited" /\ waiter'.err = NoError

\* the next step of the waiter's goroutine
WaiterStepOk ==
    WaitStartOk \/ WaitDone \/ WaitTickOk \/ WaitDownloadOk \/ WaitFinish

\* a poll interval passes while the waiter is blocked in its select with no
\* tick to receive: a storage read takes less than a poll interval
WaitClockBlocked ==
    /\ waiter.pc = "polling" /\ ~waiter.tick /\ waiter.done = ""
    /\ WaitClock

NextWaitOk ==
    \/ WaitClockBlocked
    \/ WaiterStepOk
    \/ DriverList("daemon") /\ UNCHANGED procVars
    \/ DriverCheck("daemon") /\ UNCHANGED procVars
    \/ DriverExecute("daemon") /\ UNCHANGED procVars
    \/ DriverUpload("daemon") /\ UNCHANGED procVars

\* time passes and the waiter's goroutine runs
SpecWaitOk ==
    /\ InitWait
    /\ [][NextWaitOk]_vars
    /\ WF_vars(WaitClockBlocked)
    /\ WF_vars(WaiterStepOk)

----------------------------------------------------------------------------
(* SendSlackNotification on its own: Go strings are byte sequences, the    *)
(* results given to it have logs around the limit of the excerpt           *)

\* the limit of the log excerpt
LogLimit == 1000

\* U+2717, the mark ExecuteMigration writes in front of a failure line
CrossMark == 10007

\* the UTF-8 encoding of a code point below 65536
Utf8(c) ==
    IF c < 128 THEN <<c>>
    ELSE IF c < 2048 THEN <<192 + (c \div 64), 128 + (c % 64)>>
    ELSE <<224 + (c \div 4096), 128 + ((c \div 64) % 64), 128 + (c % 64)>>

\* n bytes "a"
Ascii(n) == [i \in 1..n |-> 97]

\* len(s) counts bytes; the characters of a string are the bytes that are
\* not continuation bytes
IsContinuation(b) == b >= 128 /\ b <= 191
RuneCount(s) == Cardinality({i \in 1..Len(s) : ~IsContinuation(s[i])})

\* the first k characters of s
FirstChars(s, k) ==
    IF RuneCount(s) <= k THEN s
    ELSE LET m == CHOOSE i \in (k + 1)..Len(s) :
                    /\ ~IsContinuation(s[i])
                    /\ Cardinality({j \in 1..i : ~IsContinuation(s[j])}) = k + 1
         IN  SubSeq(s, 1, m - 1)

\* the logs of the results notified: "a"s, with or without a failure mark
\* among them
SlackLogs ==
    {Ascii(p) \o m \o Ascii(q) :
       p \in {0, 500, 996, 997, 998, 999, 1000, 1001},
       q \in {0, 1, 2, 3, 4, 500},
       m \in {<<>>, Utf8(CrossMark)}}

\* "```\n" and "\n```"
FenceOpen == <<96, 96, 96, 10>>
FenceClose == <<10, 96, 96, 96>>

\* logExcerpt: result.Log, or result.Log[:1000] when len(result.Log) > 1000
LogExcerpt(log) ==
    IF Len(log) > LogLimit THEN SubSeq(log, 1, LogLimit) ELSE log

\* the bytes at the end of s that are the beginning of a character cut short
CutTail(s) ==
    IF s = <<>> THEN 0
    ELSE LET start == CHOOSE i \in 1..Len(s) :
                        /\ ~IsContinuation(s[i])
                        /\ \A j \in (i + 1)..Len(s) : IsContinuation(s[j])
             need == IF s[start] < 128 THEN 1 ELSE IF s[start] < 224 THEN 2 ELSE 3
             have == Len(s) - start + 1
         IN  IF have < need THEN have ELSE 0

\* json.Marshal of a string: bytes that are not valid UTF-8 become U+FFFD
\* each (here: the bytes of a character cut short at the end)
JsonString(s) ==
    LET k == CutTail(s)
    IN  SubSeq(s, 1, Len(s) - k)
        \o (IF k >= 1 THEN Utf8(65533) ELSE <<>>)
        \o (IF k >= 2 THEN Utf8(65533) ELSE <<>>)

\* the attachment SendSlackNotification builds, as the webhook receives it
SlackAttachment(ver, res) ==
    [color |-> IF res.Status # "success" THEN "danger" ELSE "good",
     emoji |-> IF res.Status # "success" THEN "cross mark" ELSE "check mark",
     title |-> <<"%s Migration %s", res.Status>>,
     fields |-> <<[title |-> "Version", value |-> ver, short |-> TRUE],
                  [title |-> "Status", value |-> res.Status, short |-> TRUE]>>,
     text |-> JsonString(FenceOpen \o LogExcerpt(res.Log) \o FenceClose)]

\* the log excerpt between the code-fence markers of a text
Unfenced(text) == SubSeq(text, Len(FenceOpen) + 1, Len(text) - Len(FenceClose))

\* SendSlackNotification is called with a result
SlackCalled(res) ==
    [pc |-> "called", version |-> V1, result |-> res,
     attachment |-> SlackAttachment(V1, [Status |-> "", Log |-> <<>>]), err |-> ""]

\* SendSlackNotification: the payload is built and posted; the webhook
\* answers 2xx, or the request fails or is answered with another status
SendSlackNotification ==
    /\ slack.pc = "called"
    /\ \E post \in {"ok", "failed", "status"} :
         slack' = [slack EXCEPT
                     !.pc = "returned",
                     !.attachment = SlackAttachment(slack.version, slack.result),
                     !.err = IF post = "ok" THEN "nil"
                             ELSE IF post = "failed"
                             THEN "failed to send Slack notification"
                             ELSE "Slack API returned status %d"]
    /\ UNCHANGED <<objects, pc, versions, version, result, pushPc, pushVersion,
                   pushQueue, runs, hist, event, loop, waiter>>

InitSlack ==
    /\ objects = [d \in DirNames |-> EmptyDir]
    /\ Idle0
    /\ loop = NoLoop
    /\ waiter = NoWaiter
    /\ slack \in {SlackCalled([Status |-> s, Log |-> l]) :
                    s \in {"success", "failed"}, l \in SlackLogs}

NextSlack == SendSlackNotification

SpecSlack == InitSlack /\ [][NextSlack]_vars

----------------------------------------------------------------------------
(* ValidateMigrationFile on its own: a caller writes a file and validates  *)
(* it, as TestValidateMigrationFile does                                    *)

\* "20240101000000_.sql"
FileMinimal == <<50,48,50,52,48,49,48,49,48,48,48,48,48,48,95,46,115,113,108>>
\* "a.sql"
FileShort == <<97,46,115,113,108>>
\* "1234567890.sql"
FileFourteen == <<49,50,51,52,53,54,55,56,57,48,46,115,113,108>>
\* "abcdefghi€.sql"
FileEuro == <<97,98,99,100,101,102,103,104,105,226,130,172,46,115,113,108>>
\* "2024010100000a_x.sql"
FileLetter == <<50,48,50,52,48,49,48,49,48,48,48,48,48,97,95,120,46,115,113,108>>
\* "migration_test.sql"
FileWords == <<109,105,103,114,97,116,105,111,110,95,116,101,115,116,46,115,113,108>>
\* "20240101000000_a.txt"
FileTxt == <<50,48,50,52,48,49,48,49,48,48,48,48,48,48,95,97,46,116,120,116>>
\* "20240101000000.sql"
FileNoDescription == <<50,48,50,52,48,49,48,49,48,48,48,48,48,48,46,115,113,108>>
\* "2024010100000.sql"
FileThirteen == <<50,48,50,52,48,49,48,49,48,48,48,48,48,46,115,113,108>>

ValidateNames ==
    {FileA, FileBad, FileReadme, FileMinimal, FileShort, FileFourteen, FileEuro,
     FileLetter, FileWords, FileTxt, FileNoDescription, FileThirteen}

\* contents: with both markers, the up marker only, nothing, the down marker
\* only, "-- migrate:upgrade", "-- migrate: up"
ValidateContents ==
    {UpDown, UpOnly, <<>>, MarkerDown,
     MarkerUp \o <<103,114,97,100,101>>,
     SubSeq(MarkerUp, 1, 11) \o <<32,117,112>>}

\* the file to validate is the one entry of pushQueue
InitValidate ==
    /\ objects = [d \in DirNames |-> EmptyDir]
    /\ pc = [d \in Drivers |-> "idle"]
    /\ versions = [d \in Drivers |-> <<>>]
    /\ version = [d \in Drivers |-> NoVersion]
    /\ result = [d \in Drivers |-> NoResult]
    /\ pushPc = "validate"
    /\ pushVersion = NoVersion
    /\ pushQueue \in {<<[name |-> n, content |-> c]>> :
                        n \in ValidateNames, c \in ValidateContents}
    /\ runs = 0
    /\ hist = [executions |-> [v \in DirNames |-> 0],
               runnerCalls |-> [v \in DirNames |-> 0],
               deleted |-> [v \in DirNames |-> FALSE],
               uploads |-> [v \in DirNames |-> 0],
               uploaded |-> [v \in DirNames |-> 0],
               tempDirs |-> 0]
    /\ event = NoEvent
    /\ loop = NoLoop
    /\ waiter = NoWaiter
    /\ slack = NoSlack

\* ValidateMigrationFile is called for the file; the error it returns is
\* kept in event.err, and whether the file could be read in event.value
TestValidateMigrationFile ==
    /\ pushPc = "validate"
    /\ \E readOk \in BOOLEAN :
         /\ event' = [NoEvent EXCEPT !.who = "validate",
                                     !.err = ValidateMigrationFileError(Head(pushQueue), readOk),
                                     !.value = IF readOk THEN "readable" ELSE "unreadable"]
    /\ pushPc' = "validated"
    /\ UNCHANGED <<objects, pc, versions, version, result, pushVersion,
                   pushQueue, runs, hist, loop, waiter, slack>>

NextValidate == TestValidateMigrationFile

SpecValidate == InitValidate /\ [][NextValidate]_vars

----------------------------------------------------------------------------
(* Properties of the operator's retry                                      *)

\* C16: when result.json of the newest listed version has been deleted by an
\* operator and is absent at the existence check, the run (once or daemon)
\* finds that version, can execute it, and its upload, when PutObject
\* succeeds, writes the new outcome as the version's result.json.
C16_DeletedRecordIsRerun ==
    /\ [][\A d \in Drivers :
            (/\ pc[d] = "listed" /\ pc'[d] # "listed"
             /\ event'.err # ErrCheck
             /\ hist.deleted[NewestVersion(versions[d])]
             /\ objects[NewestVersion(versions[d])].result = NoResult)
              => /\ pc'[d] = "found"
                 /\ version'[d] = NewestVersion(versions[d])]_vars
    /\ [](\A d \in Drivers : pc[d] = "found" => ENABLED DriverExecute(d))
    /\ [][\A d \in Drivers :
            (/\ pc[d] = "executed" /\ pc'[d] = "idle"
             /\ hist.deleted[version[d]]
             /\ event'.putOk = 1)
              => /\ objects'[version[d]].result = result[d]
                 /\ result[d] # NoResult
                 /\ hist'.executions[version[d]] >= 2]_vars

\* C16 witness: V1 was executed and recorded, its record deleted, and a
\* second execution of V1 has written a new record
C16_Witness ==
    /\ hist.deleted[V1]
    /\ hist.executions[V1] = 2 /\ hist.uploaded[V1] = 2
    /\ objects[V1].result # NoResult
    /\ pc["once"] = "idle" /\ pc["daemon"] = "idle"

----------------------------------------------------------------------------
(* Properties of the waiter                                                *)

\* C17: when result.json of the named version exists as WaitForResult
\* starts and the immediate existence check is answered, the result is
\* downloaded at once; a result found immediately is returned as it is
\* stored, after one existence check and no poll tick.
C17_ImmediateCheckReturnsExisting ==
    /\ [][(/\ waiter.pc = "off" /\ waiter'.pc # "off"
            /\ objects[WaitVersion].result # NoResult
            /\ waiter'.checkErr = NoError)
             => /\ waiter'.pc = "download"
                /\ waiter'.found = "immediately"
                /\ waiter'.attempt = 1 /\ waiter'.polls = 0]_vars
    /\ []((waiter.pc \in {"waited", "returned"} /\ waiter.found = "immediately"
            /\ waiter.err = NoError)
             => /\ waiter.result = objects[WaitVersion].result
                /\ waiter.result # NoResult
                /\ waiter.attempt = 1 /\ waiter.polls = 0)

\* C17 witness: the result was there at the start and was returned before
\* any poll interval had passed
C17_Witness ==
    /\ waiter.pc = "waited" /\ waiter.found = "immediately"
    /\ waiter.err = NoError /\ waiter.result # NoResult
    /\ waiter.clock = 0 /\ waiter.dl = 1

\* C18: a WaitForResult in its poll loop always comes to return; when it
\* returns without the result having appeared and without cancellation, the
\* timeout has elapsed and the error is the timeout error; the attempt count
\* of a timeout error is the immediate check plus one per tick received,
\* which is WaitTimeoutTicks or one more when no tick was dropped.
C18_TimeoutCarriesAttempts ==
    /\ (waiter.pc = "polling") ~> (waiter.pc = "returned")
    /\ []((waiter.pc = "returned" /\ objects[WaitVersion].result = NoResult
            /\ waiter.done # "canceled")
             => /\ waiter.err = ErrTimeout /\ waiter.ret = ErrTimeout
                /\ waiter.done = "deadline"
                /\ waiter.clock = WaitTimeoutTicks)
    /\ []((waiter.pc \in {"waited", "returned"} /\ waiter.err = ErrTimeout)
             => /\ waiter.attempt = 1 + waiter.polls
                /\ waiter.polls + waiter.dropped <= waiter.clock
                /\ (waiter.done = "deadline" /\ waiter.dropped = 0)
                     => waiter.attempt \in {WaitTimeoutTicks, WaitTimeoutTicks + 1})

\* C18 witness: the result never appeared, the waiter received every tick
\* before the deadline and returned the timeout error at the deadline
C18_Witness ==
    /\ waiter.pc = "returned" /\ waiter.ret = ErrTimeout
    /\ waiter.done = "deadline" /\ waiter.clock = WaitTimeoutTicks
    /\ waiter.dropped = 0 /\ waiter.attempt = WaitTimeoutTicks
    /\ objects[WaitVersion].result = NoResult

\* C19: once the context is cancelled a polling WaitForResult can return at
\* once, and the error of a poll loop ended by cancellation is not the
\* timeout error.
C19_CancelDistinguishedFromTimeout ==
    /\ (waiter.pc = "polling" /\ waiter.done = "canceled") => ENABLED WaitDone
    /\ (waiter.pc \in {"waited", "returned"} /\ waiter.done = "canceled"
        /\ waiter.found = "" /\ waiter.err # NoError)
         => waiter.err # ErrTimeout

\* C20: once WaitForResult has given wait.Execute a result, the notification
\* is skipped (no webhook) or is delivered or fails (webhook), and in each
\* case wait.Execute returns nil for status "success" and the
\* migration-failed error for any other status.
C20_ReturnMirrorsStatusOnly ==
    /\ (waiter.pc = "waited" /\ waiter.err = NoError)
         => \A n \in NotifyOutcomes(NoError, waiter.webhook) :
              ENABLED (WaitFinish /\ waiter'.notified = n
                       /\ waiter'.ret = IF waiter.result.Status = "success"
                                        THEN "nil" ELSE "migration failed: %s")
    /\ (waiter.pc = "returned" /\ waiter.err = NoError)
         => /\ waiter.result # NoResult
            /\ waiter.notified \in SlackOutcomes
            /\ waiter.ret = IF waiter.result.Status = "success"
                            THEN "nil" ELSE "migration failed: %s"

\* C20 witness: the migration succeeded, the notification failed, and
\* wait.Execute returned nil
C20_Witness ==
    /\ waiter.pc = "returned" /\ waiter.err = NoError
    /\ waiter.result.Status = "success"
    /\ waiter.notified = "failed" /\ waiter.ret = "nil"

\* C21: downloadResultWithRetry makes at most maxRetries attempts, waits 1s
\* after the first failure and 2s after the second and not after the third,
\* returns the stored result of the first attempt that succeeds and the
\* download error after three failures; the waiter never goes back to polling.
C21_BoundedDownloadRetry ==
    /\ [](waiter.pc \in {"download", "backoff"}
            => /\ waiter.dl \in 1..maxRetries
               /\ waiter.slept = SubSeq(<<1, 2>>, 1, waiter.dl - 1)
               /\ waiter.pc = "backoff" => waiter.dl < maxRetries)
    /\ []((waiter.pc \in {"waited", "returned"} /\ waiter.err = ErrDownload)
            => waiter.dl = maxRetries /\ waiter.slept = <<1, 2>>)
    /\ [][waiter.pc \in {"download", "backoff"}
            => /\ waiter'.pc \in {"download", "backoff", "waited"}
               /\ waiter'.polls = waiter.polls /\ waiter'.attempt = waiter.attempt
               /\ (waiter.pc = "download" /\ waiter'.pc = "waited"
                    /\ waiter'.err = NoError)
                    => waiter'.result = objects[WaitVersion].result
               /\ (waiter.pc = "download" /\ waiter'.pc = "waited"
                    /\ waiter'.err # NoError)
                    => waiter'.err = ErrDownload /\ waiter.dl = maxRetries]_vars

\* C21 witness: three downloads failed, with waits of 1s and 2s between them
C21_Witness ==
    /\ waiter.pc = "waited" /\ waiter.err = ErrDownload
    /\ waiter.dl = maxRetries /\ waiter.slept = <<1, 2>>

\* C22: an existence check that fails with a storage error, at the start or
\* in a poll, leaves WaitForResult in its poll loop with no error set; a
\* polling waiter takes every tick it is sent, and leaves the loop only for
\* the download of a result it has seen or because the context is done.
C22_CheckErrorKeepsWaiting ==
    /\ [][(waiter'.attempt = waiter.attempt + 1 /\ waiter'.checkErr # NoError)
            => /\ waiter'.pc = "polling"
               /\ waiter'.err = NoError /\ waiter'.result = NoResult]_vars
    /\ []((waiter.pc = "polling" /\ waiter.tick) => ENABLED WaitTick)
    /\ [][(waiter.pc = "polling" /\ waiter'.pc # "polling")
            => \/ /\ waiter'.pc = "download" /\ waiter'.checkErr = NoError
                  /\ objects[WaitVersion].result # NoResult
               \/ /\ waiter'.pc = "waited" /\ waiter.done # ""
                  /\ waiter'.err = ErrTimeout]_vars

\* C22 witness: the result is in storage, the immediate check and a poll
\* both failed with a storage error, and the waiter is still polling
C22_Witness ==
    /\ waiter.pc = "polling" /\ waiter.polls >= 1
    /\ waiter.checkErr = "AccessDenied"
    /\ objects[WaitVersion].result # NoResult
    /\ waiter.done = ""

----------------------------------------------------------------------------
(* Properties of push                                                      *)

\* C23: a push of a version that is not 14 digits returns the version error,
\* a validating push of a directory holding 20240101000000migration.sql
\* returns the validation error; a push that returns either leaves storage
\* as it was and uploads nothing, so no upload is ever under way for such a
\* version or such a file and storage never holds the file.
C23_RejectedPushWritesNothing ==
    /\ [](\A v \in {VShort, VAlpha}, in \in PushInputs, dryRun \in BOOLEAN :
            PushCheck(v, in.dir, in.validate, dryRun, CheckResultExists("NotFound"))
              = "version must be 14 digits")
    /\ [](\A v \in {V1, V2}, dryRun \in BOOLEAN :
            PushCheck(v, DirBad, TRUE, dryRun, CheckResultExists("NotFound"))
              = "validation failed")
    /\ [][(pushPc = "idle" /\ event'.who = "push"
            /\ event'.value \in {"version must be 14 digits", "validation failed"})
             => /\ objects' = objects
                /\ pushPc' = "idle" /\ pushQueue' = <<>>]_vars
    /\ [](pushPc = "uploading"
            => /\ pushVersion \in {V1, V2}
               /\ \A i \in 1..Len(pushQueue) : pushQueue[i].name # FileBad)
    /\ [](\A v \in DirNames : \A f \in objects[v].files : f.name # FileBad)

\* C23 witness: push has just rejected its input in validation and storage
\* holds nothing
C23_Witness ==
    /\ event.who = "push" /\ event.value = "validation failed"
    /\ pushPc = "idle"
    /\ \A v \in DirNames : objects[v] = EmptyDir

\* C24: a push starts uploading only into a version directory that holds no
\* migration files yet, the migration files of a directory are changed by
\* nothing but the push that is uploading them, and result.json of a
\* version is stored at most once unless an operator deleted it.
C24_VersionDirectoryImmutable ==
    /\ [][(pushPc = "idle" /\ pushPc' = "uploading")
            => objects[pushVersion'].files = NoFiles]_vars
    /\ [][\A v \in DirNames :
            objects'[v].files # objects[v].files
              => pushPc = "uploading" /\ pushVersion = v]_vars
    /\ [](\A v \in DirNames : hist.uploaded[v] <= 1 \/ hist.deleted[v])

\* C27: a push with --dry-run never goes on to upload: it returns the error
\* the same push without --dry-run returns from its checks of the version,
\* of result.json and of the files, and nil where that push would upload; a
\* push that returns nil without having uploaded leaves storage as it was.
C27_DryRunWritesNothing ==
    /\ [](\A v \in PushVersions, in \in PushInputs,
             h \in {"", "NotFound", "NoSuchKey", "AccessDenied"} :
            LET chk == CheckResultExists(h)
                wet == PushCheck(v, in.dir, in.validate, FALSE, chk)
            IN  PushCheck(v, in.dir, in.validate, TRUE, chk)
                  = IF wet = "upload" THEN "nil" ELSE wet)
    /\ [][(pushPc = "idle" /\ pushPc' = "idle"
            /\ event'.who = "push" /\ event'.value = "nil")
             => objects' = objects /\ pushQueue' = <<>>]_vars
    /\ [][objects'[V1].files # objects[V1].files \/ objects'[V2].files # objects[V2].files
             => pushPc = "uploading"]_vars

\* C27 witness: a dry run has returned nil and storage is still empty
C27_Witness ==
    /\ event.who = "push" /\ event.value = "nil"
    /\ pushPc = "idle"
    /\ \A v \in DirNames : objects[v] = EmptyDir

----------------------------------------------------------------------------
(* Properties of the outcome                                               *)

\* C29: the result of an execution that succeeded has MigrationsApplied equal
\* to the number of files in the version's migrations directory, whatever was
\* applied for earlier versions; the result of one that failed has
\* MigrationsApplied 0 and no migrations_applied key in result.json.
C29_MigrationsAppliedCountsFiles ==
    [][\A d \in Drivers :
         (pc[d] = "found" /\ pc'[d] = "executed")
           => LET r == result'[d]
                  n == Cardinality(objects[version[d]].files)
              IN  /\ r.Status = "success"
                       => /\ r.MigrationsApplied = n
                          /\ n > 0 => "migrations_applied" \in ResultJsonKeys(r)
                  /\ r.Status # "success"
                       => /\ r.MigrationsApplied = 0
                          /\ "migrations_applied" \notin ResultJsonKeys(r)]_vars

\* C29 witness: 20240101000000 was applied with 20240101000000_a.sql, and the
\* execution of 20240102000000, whose directory holds that file and one
\* more, succeeded with MigrationsApplied 2
C29_Witness ==
    /\ objects[V1].result.Status = "success"
    /\ \E d \in Drivers :
         /\ pc[d] = "executed" /\ version[d] = V2
         /\ objects[V2].files = DirB
         /\ result[d].Status = "success" /\ result[d].MigrationsApplied = 2

----------------------------------------------------------------------------
(* Properties of the listing                                               *)

\* C25: the versions a run has listed are all 14 digits and ascending, so
\* that the newest of them is a 14-digit name, and the version a run finds
\* is 14 digits.
C25_MalformedNamesDiscarded ==
    /\ \A d \in Drivers :
         pc[d] = "listed"
           => /\ \A i \in 1..Len(versions[d]) : ValidVersion(versions[d][i])
              /\ \A i \in 1..(Len(versions[d]) - 1) :
                   StrLess(versions[d][i], versions[d][i + 1])
    /\ \A d \in Drivers : pc[d] = "found" => ValidVersion(version[d])

----------------------------------------------------------------------------
(* Properties of the notification                                          *)

\* C26: the log excerpt between the code fences of the text received is the
\* first LogLimit characters of the log when the log has more characters
\* than LogLimit and the whole log otherwise, and never has more characters
\* than LogLimit.
C26_ExcerptIsFirstThousandChars ==
    slack.pc = "returned"
      => LET log == slack.result.Log
             excerpt == Unfenced(slack.attachment.text)
         IN  /\ RuneCount(log) > LogLimit => excerpt = FirstChars(log, LogLimit)
             /\ RuneCount(log) <= LogLimit => excerpt = log
             /\ RuneCount(excerpt) <= LogLimit

----------------------------------------------------------------------------
(* Properties of the working directory *)

----------------------------------------------------------------------------
(* Properties of the file validation *)

\* the file validated and the checks of its name and content
ValidatedFile == Head(pushQueue)
EndsInSql(f) == HasSuffix(f.name, Str_sql)
StartsWithTimestamp(f) == Len(f.name) >= 14 /\ \A i \in 1..14 : IsDigit(f.name[i])
UnderscoreFollows(f) == Len(f.name) >= 15 /\ f.name[15] = 95

\* the error of the first failing check, the length check made on `len`
FirstFailingCheck(f, len) ==
    IF ~EndsInSql(f) THEN ErrExtension
    ELSE IF len < 15 THEN ErrTooShort
    ELSE IF ~StartsWithTimestamp(f) THEN ErrTimestamp
    ELSE IF ~UnderscoreFollows(f) THEN ErrUnderscore
    ELSE IF ~Contains(f.content, MarkerUp) THEN ErrMarkerUp
    ELSE NoError

----------------------------------------------------------------------------
(* Properties of the daemon's loop *)

\* C33: in one daemon process at most one migration check is in progress; a
\* tick that fires while a check runs stays in the ticker's channel, and the
\* next check starts only when the one before it has returned
C33_ChecksNeverOverlap ==
    /\ [](loop.checks <= 1)
    /\ [][(loop.pc = "running" /\ loop.tick) => loop'.tick]_vars
    /\ [][loop'.checks > loop.checks => (loop.checks = 0 /\ pc["daemon"] = "idle")]_vars

\* the ticker has fired during a check that is still in progress
C33_Witness_TickDuringCheck ==
    /\ loop.pc = "running"
    /\ loop.checks = 1
    /\ loop.tick
    /\ pc["daemon"] = "executed"

----------------------------------------------------------------------------
(* Properties of the wait *)

\* result.json of the version waited for is in storage
OutcomeStored == objects[WaitVersion].result # NoResult

\* C34: when the outcome of the version waited for is in storage while at
\* least one tick of the ticker is still to come before the deadline, with
\* storage reads that succeed, WaitForResult returns that outcome and no
\* timeout
C34_OutcomeBeforeDeadlineIsReturned ==
    (/\ OutcomeStored
     /\ waiter.pc \in {"off", "polling"}
     /\ waiter.clock <= WaitTimeoutTicks - 2)
      ~> (/\ waiter.pc \in {"waited", "returned"}
          /\ waiter.err = NoError
          /\ waiter.result = objects[WaitVersion].result)

\* the outcome was found by the last poll before the deadline
C34_Witness_FoundByLastPoll ==
    /\ waiter.pc = "waited"
    /\ waiter.found = "polled"
    /\ waiter.clock = WaitTimeoutTicks - 1
    /\ waiter.polls = WaitTimeoutTicks - 1
    /\ waiter.result = objects[WaitVersion].result
    /\ OutcomeStored

----------------------------------------------------------------------------
(* Properties of the existence check *)

----------------------------------------------------------------------------
(* Properties of a failed upload *)

\* the outcome of `v` could not be written by some run and is not in storage
UploadFailed(v) ==
    /\ hist.uploads[v] > hist.uploaded[v]
    /\ objects[v].result = NoResult

\* C36: when UploadResult fails after an execution, storage is left as it
\* was, once.Execute returns an error whatever the migration's status and a
\* daemon tick logs "Failed to upload result" and returns; a later run whose
\* existence check answers for that version, still the newest, finds it
\* again, and a run that found a version executes it
C36_FailedUploadLeavesVersionOutstanding ==
    /\ [][\A d \in Drivers :
            (pc[d] = "executed" /\ pc'[d] = "idle" /\ event'.putOk = 0)
              => /\ objects' = objects
                 /\ event'.who = d
                 /\ event'.msg = "Failed to upload result"
                 /\ event'.value = (IF d = "once" THEN "error" ELSE "void")]_vars
    /\ [][\A d \in Drivers :
            (/\ pc[d] = "listed" /\ pc'[d] # "listed"
             /\ event'.err # ErrCheck
             /\ UploadFailed(NewestVersion(versions[d])))
              => /\ pc'[d] = "found"
                 /\ version'[d] = NewestVersion(versions[d])]_vars
    /\ [][\A d \in Drivers :
            (pc[d] = "found" /\ pc'[d] # "found")
              => /\ pc'[d] = "executed"
                 /\ hist'.executions[version[d]] = hist.executions[version[d]] + 1]_vars

\* V1 is executed a second time after the upload of its first outcome, a
\* success, failed
C36_Witness_ExecutedAgain ==
    /\ hist.executions[V1] = 2
    /\ hist.runnerCalls[V1] = 2
    /\ hist.uploads[V1] = 1 /\ hist.uploaded[V1] = 0
    /\ ~hist.deleted[V1]
    /\ \E d \in Drivers : pc[d] = "executed" /\ version[d] = V1

----------------------------------------------------------------------------
(* Properties of a push next to a run *)

\* C37: a driver executes a version from all the files push uploads for it:
\* no run executes a version while a push has files of it still to upload,
\* and once the push has returned a recorded success counts every file of
\* the version's directory
C37_ExecutesCompleteSet ==
    /\ [][\A d \in Drivers :
            (/\ pc[d] = "found" /\ pc'[d] = "executed"
             /\ pushPc = "uploading" /\ pushVersion = version[d])
              => Range(pushQueue) \subseteq objects[version[d]].files]_vars
    /\ [](\A v \in DirNames :
            (pushPc = "idle" /\ objects[v].result.Status = "success")
              => objects[v].result.MigrationsApplied = Cardinality(objects[v].files))

----------------------------------------------------------------------------
(* Properties of the outcome's key *)

\* C38: an outcome record that a driver writes is the result of the version
\* the same run has just executed, stored as <prefix><V>/result.json of that
\* version V with V in its version field; every stored record names the
\* version of its directory
C38_OutcomeStoredUnderItsVersion ==
    /\ [][\A d \in Drivers :
            (pc[d] = "executed" /\ pc'[d] = "idle" /\ event'.putOk = 1)
              => /\ ResultKeys[version[d]]
                      = Prefix \o version[d] \o Slash \o Str_resultJson
                 /\ objects'[version[d]].result = result[d]
                 /\ result[d].Version = version[d]
                 /\ hist.executions[version[d]] > 0]_vars
    /\ [](\A v \in DirNames :
            objects[v].result # NoResult => objects[v].result.Version = v)

\* the outcome of V2 was written while V1 has one too
C38_Witness_SecondVersionStored ==
    /\ event.who \in Drivers /\ event.putOk = 1
    /\ objects[V2].result.Version = V2
    /\ objects[V1].result.Version = V1

----------------------------------------------------------------------------
(* Properties of the writes to storage *)

\* C39: a step of a driver run changes storage only when it uploads the
\* outcome, and then only result.json of the version the run selected: every
\* migration file and every other version's objects stay as they were.  A run
\* returns after at most one PutObject, a run that finds nothing outstanding
\* after none, and no step of the waiter changes storage
C39_RunWritesOnlyItsOutcome ==
    /\ [][\A d \in Drivers :
            (pc'[d] # pc[d] \/ event'.who = d)
              => /\ pc[d] # "executed" => objects' = objects
                 /\ \A v \in DirNames :
                      /\ objects'[v].files = objects[v].files
                      /\ v # version[d] => objects'[v] = objects[v]]_vars
    /\ [][(event'.who \in Drivers /\ event'.err \in {ErrNoUnapplied, ErrNoVersions})
            => (event'.puts = 0 /\ objects' = objects)]_vars
    /\ [](event.who \in Drivers => event.puts <= 1)
    /\ [][waiter' # waiter => objects' = objects]_vars

\* the run has stored the outcome the waiter polls for, the files in place
C39_Witness_OutcomeStoredWhileWaiting ==
    /\ event.who = "daemon" /\ event.puts = 1 /\ event.putOk = 1
    /\ objects[WaitVersion].result # NoResult
    /\ objects[WaitVersion].files = DirA
    /\ waiter.polls > 0

----------------------------------------------------------------------------
(* Properties of the waiter's notification *)

WaitErrors == {ErrTimeout, ErrDownload, ErrCanceled, ErrDeadline}

\* C40: wait.Execute calls SendSlackNotification at most once, and only with
\* an outcome that WaitForResult fetched; when the wait ended in a timeout or
\* in a fetch error no notification is sent, webhook or not
C40_NotifyOnlyAfterOutcome ==
    /\ [](waiter.pc # "off" /\ waiter.notified \in {"delivered", "failed"}
            => /\ waiter.webhook
               /\ waiter.pc = "returned"
               /\ waiter.err = NoError
               /\ waiter.result # NoResult
               /\ waiter.result.Version = WaitVersion)
    /\ [](waiter.pc = "returned" /\ waiter.err \in WaitErrors
            => waiter.notified = "" /\ waiter.ret = waiter.err)
    /\ [](waiter.pc = "returned" /\ waiter.err = NoError
            => IF waiter.webhook THEN waiter.notified \in {"delivered", "failed"}
               ELSE waiter.notified = "skipped")
    /\ [][waiter.notified # "" => waiter'.notified = waiter.notified]_vars

\* a wait with a webhook ended in the timeout and has returned
C40_Witness_TimeoutWithWebhook ==
    /\ waiter.pc = "returned"
    /\ waiter.webhook
    /\ waiter.err = ErrTimeout
    /\ waiter.notified = ""

====
